---- MODULE Spec2Model ----
(***************************************************************************)
(* Missoula Pro-Am Manager: a state-machine model of the tournament store  *)
(* and of the handlers that write to it (heat generation and editing,      *)
(* heat-result submission and event finalization, competitor scratch and   *)
(* delete, the report cache and the Pro-Am relay lottery).                 *)
(*                                                                         *)
(* Conventions.  A nullable integer column (result_value, final_position)  *)
(* holds 0 for NULL.  Money (payout_amount, total_earnings) is modelled in *)
(* whole units.  A database table is a function from primary keys to rows; *)
(* a whole database is a record of tables, so that the pure parts of the   *)
(* handlers are operators from databases to databases.                     *)
(***************************************************************************)
EXTENDS Integers, Sequences, FiniteSets, TLC

\* ------------------------------------------------------------------ bounds
NumComps == 3
MaxValue == 2
MaxAudit == 3
MaxVersion == 3
MaxRemoved == 1
MaxWrites == 2
RelayPerBucket == 3
MaxTeams == 2
MaxEntrants == 17
MaxFlightHeats == 6
MaxPairs == 5
MaxHits == 2
MaxBirling == 8
MaxRelayTime == 1
FlightComps == 2

\* ----------------------------------------------------------------- helpers
Max(S) == CHOOSE x \in S : \A y \in S : y <= x

Min(a, b) == IF a <= b THEN a ELSE b

NextId(table) == IF DOMAIN table = {} THEN 1 ELSE Max(DOMAIN table) + 1

Range(s) == {s[i] : i \in DOMAIN s}

Restrict(f, S) == [x \in S |-> f[x]]

EmptyTable == [x \in {} |-> 0]

RECURSIVE SortedSeq(_)
SortedSeq(S) ==
    IF S = {} THEN << >>
    ELSE LET m == CHOOSE x \in S : \A y \in S : x <= y
         IN  <<m>> \o SortedSeq(S \ {m})

RECURSIVE SumOver(_, _)
SumOver(S, f) ==
    IF S = {} THEN 0
    ELSE LET x == CHOOSE y \in S : TRUE
         IN  f[x] + SumOver(S \ {x}, f)

SelectIds(table, P(_)) == {k \in DOMAIN table : P(table[k])}

Remove(s, x) == SelectSeq(s, LAMBDA y : y # x)

CeilDiv(n, d) == (n + d - 1) \div d

\* ------------------------------------------------------------------ config
PLACEMENT_POINTS == <<10, 7, 5, 3, 2, 1>>

PlacementPoints(position) ==
    IF position \in DOMAIN PLACEMENT_POINTS THEN PLACEMENT_POINTS[position] ELSE 0

KnownStandTypes ==
    {"springboard", "underhand", "standing_block", "cookie_stack", "saw_hand",
     "stock_saw", "hot_saw", "obstacle_pole", "speed_climb", "chokerman",
     "axe_throw", "caber", "peavey", "pulp_toss", "birling"}

StandTotal(stand_type) ==
    CASE stand_type = "springboard" -> 4
      [] stand_type \in {"underhand", "standing_block", "cookie_stack"} -> 5
      [] stand_type = "saw_hand" -> 8
      [] stand_type = "hot_saw" -> 4
      [] stand_type \in {"stock_saw", "obstacle_pole", "speed_climb", "chokerman"} -> 2
      [] stand_type \in {"axe_throw", "caber", "peavey", "pulp_toss", "birling"} -> 1

SpecificStands(stand_type) ==
    CASE stand_type = "stock_saw" -> <<1, 2>>
      [] stand_type = "hot_saw" -> <<1, 2, 3, 4>>
      [] OTHER -> << >>

\* ------------------------------------------------------------------- state
VARIABLES
    heats,              \* Heat rows
    heat_assignments,   \* HeatAssignment rows
    results,            \* EventResult rows
    college,            \* CollegeCompetitor rows
    pro,                \* ProCompetitor rows
    teams,              \* Team rows
    events,             \* Event rows
    audit,              \* AuditLog rows, oldest first
    sess,               \* per request worker: the open SQLAlchemy session
    race,               \* the last pair of overlapping submissions to one heat
    cache,              \* report_cache._cache: key -> entry
    store_rev,          \* per tournament: number of committed writes to its data
    reader,             \* per read request: its position in _cached_payload
    writer,             \* the write request between its commit and its invalidation
    served,             \* the payload the last finished read request returned
    relay,              \* relay_data, the JSON kept in the 'Pro-Am Relay' event
    relay_outcome,      \* how the last request of the relay scenario ended
    ordered_heats,      \* what _optimize_heat_order returned to the last flight build
    flight_id,          \* Heat.flight_id (as the flight's number) of the heats that have one
    axe,                \* the Partnered Axe Throw state, the JSON kept in the event's payouts
    bracket_data,       \* the Birling bracket, the JSON kept in the event's payouts
    sb,                 \* _generate_springboard_heats: its locals and its position
    jobs,               \* background_jobs._jobs and the executor's futures, per job
    http,               \* the request in flight: who asks for which endpoint, how far it got
    import_outcome      \* how the last college entry form import ended

dbvars == <<heats, heat_assignments, results, college, pro, teams, events, audit>>

reqvars == <<sess, race>>

cachevars == <<cache, store_rev, reader, writer, served>>

relayvars == <<relay, relay_outcome>>

flightvars == <<ordered_heats, flight_id>>

axevars == <<axe>>

birlingvars == <<bracket_data>>

procvars == <<sb, jobs, http, import_outcome>>

extvars == <<flightvars, axevars, birlingvars, procvars>>

vars == <<dbvars, reqvars, cachevars, relayvars, extvars>>

DB ==
    [heats |-> heats, heat_assignments |-> heat_assignments, results |-> results,
     college |-> college, pro |-> pro, teams |-> teams, events |-> events,
     audit |-> audit]

Store(d) ==
    /\ heats' = d.heats
    /\ heat_assignments' = d.heat_assignments
    /\ results' = d.results
    /\ college' = d.college
    /\ pro' = d.pro
    /\ teams' = d.teams
    /\ events' = d.events
    /\ audit' = d.audit

Comps == 1 .. NumComps

TeamOf(c) == (c + 1) \div 2


\* ------------------------------------------------------------ row builders
NewResult(event_id, competitor_id) ==
    [event_id |-> event_id, competitor_id |-> competitor_id, status |-> "pending",
     result_value |-> 0, run1_value |-> 0, run2_value |-> 0, best_run |-> 0,
     final_position |-> 0, points_awarded |-> 0, payout_amount |-> 0,
     is_flagged |-> FALSE, version_id |-> 1]

NewHeat(event_id, heat_number, run_number, competitor_ids, stand_assignments) ==
    [event_id |-> event_id, heat_number |-> heat_number, run_number |-> run_number,
     competitors |-> competitor_ids, stand_assignments |-> stand_assignments,
     status |-> "pending", version_id |-> 1]

CompTable(d, event_type) == IF event_type = "college" THEN d.college ELSE d.pro

EventResultIds(d, e) == {r \in DOMAIN d.results : d.results[r].event_id = e}

EventHeatIds(d, e) == {h \in DOMAIN d.heats : d.heats[h].event_id = e}

\* Appends rows to a table under fresh autoincrement keys, in order.
RECURSIVE InsertAll(_, _)
InsertAll(table, rows) ==
    IF rows = << >> THEN table
    ELSE InsertAll(table @@ (NextId(table) :> Head(rows)), Tail(rows))

\* ---------------------------------------------- services/heat_generator.py
normalize_name(name) ==
    CASE name = "Stock Saw" -> "stocksaw"
      [] name = "Axe Throw" -> "axethrow"
      [] name = "Peavey Log Roll" -> "peaveylogroll"
      [] name = "Caber Toss" -> "cabertoss"
      [] name = "Pulp Toss" -> "pulptoss"
      [] name = "Obstacle Pole" -> "obstaclepole"
      [] name = "Speed Climb" -> "speedclimb"
      [] name = "Single Buck" -> "singlebuck"
      [] name = "Underhand" -> "underhand"
      [] OTHER -> name

LIST_ONLY_EVENT_NAMES == {"axethrow", "peaveylogroll", "cabertoss", "pulptoss"}

is_list_only_event(ev) ==
    ev.event_type = "college" /\ normalize_name(ev.name) \in LIST_ONLY_EVENT_NAMES

Entrant(table, c, from_results, event_type) ==
    [id |-> c,
     is_left_handed |->
        IF event_type = "pro" THEN table[c].is_left_handed_springboard ELSE FALSE,
     gear_sharing |-> table[c].gear_sharing]

\* The entrants of an event and the EventResult rows the lookup adds to the
\* session: the active competitors that already have a result row or, when
\* there is none, every active competitor of the event's gender.
get_event_competitors(d, e) ==
    LET ev == d.events[e]
        table == CompTable(d, ev.event_type)
        rids == SortedSeq(EventResultIds(d, e))
        from_results ==
            SelectSeq(rids, LAMBDA r :
                /\ d.results[r].competitor_id \in DOMAIN table
                /\ table[d.results[r].competitor_id].status = "active")
        all_comps ==
            SelectSeq(SortedSeq(DOMAIN table), LAMBDA c :
                /\ table[c].status = "active"
                /\ (ev.gender # "" => table[c].gender = ev.gender))
    IN  IF from_results # << >>
        THEN [competitors |->
                [i \in DOMAIN from_results |->
                    Entrant(table, d.results[from_results[i]].competitor_id, TRUE,
                            ev.event_type)],
              added |-> << >>]
        ELSE [competitors |->
                [i \in DOMAIN all_comps |->
                    Entrant(table, all_comps[i], FALSE, ev.event_type)],
              added |-> [i \in DOMAIN all_comps |-> NewResult(e, all_comps[i])]]

\* A gear_sharing dict maps keys to values.  A key is an event id
\* ([kind |-> "event", id |-> e]), a category ([kind |-> "category", text |->
\* "crosscut"]) or free text looked up in the event's display name; a value is
\* a competitor's name ([kind |-> "name", id |-> c], names standing one to one
\* for competitor ids) or a group token ([kind |-> "group", text |-> g]).
GearKey(kind, id, text) == [kind |-> kind, id |-> id, text |-> text]

\* token in event.display_name.lower(), for the event names of the model.
display_name_contains(ev, token) ==
    CASE token = "buck" -> ev.name \in {"Single Buck", "Double Buck"}
      [] token = "saw" -> ev.name \in {"Stock Saw", "Hot Saw"}
      [] token = "stock saw" -> ev.name = "Stock Saw"
      [] token = "hot saw" -> ev.name = "Hot Saw"
      [] OTHER -> FALSE

gear_key_matches_event(key, ev, e) ==
    IF key.kind = "event" THEN key.id = e
    ELSE IF key.kind = "category"
    THEN IF key.text = "crosscut"
         THEN \/ ev.stand_type = "saw_hand"
              \/ \E token \in {"buck", "saw", "crosscut"} :
                    display_name_contains(ev, token)
         ELSE IF key.text = "chainsaw"
         THEN \E token \in {"stock saw", "power saw", "hot saw"} :
                 display_name_contains(ev, token)
         ELSE FALSE
    ELSE display_name_contains(ev, key.text)

competitors_share_gear_for_event(comp1, comp2, ev, e) ==
    LET sharing1 == comp1.gear_sharing
        sharing2 == comp2.gear_sharing
    IN  \/ \E key1 \in DOMAIN sharing1 :
              /\ gear_key_matches_event(key1, ev, e)
              /\ \/ /\ sharing1[key1].kind = "name"
                    /\ sharing1[key1].id = comp2.id
                 \/ /\ sharing1[key1].kind = "group"
                    /\ \E key2 \in DOMAIN sharing2 :
                          /\ gear_key_matches_event(key2, ev, e)
                          /\ sharing2[key2] = sharing1[key1]
        \/ \E key2 \in DOMAIN sharing2 :
              /\ gear_key_matches_event(key2, ev, e)
              /\ sharing2[key2].kind = "name"
              /\ sharing2[key2].id = comp1.id

\* A draft that never looks at gear sharing.
IgnoreGearSharing(comp, heat_competitors, ev, e) == FALSE

has_gear_sharing_conflict(comp, heat_competitors, ev, e) ==
    \E i \in DOMAIN heat_competitors :
        competitors_share_gear_for_event(comp, heat_competitors[i], ev, e)

\* A draft that deals round robin instead of turning at the ends.
advance_round_robin(heat_idx, direction, num_heats) ==
    [heat_idx |-> (heat_idx + 1) % num_heats, direction |-> direction]

advance_snake_index(heat_idx, direction, num_heats) ==
    LET i == heat_idx + direction
    IN  IF i >= num_heats THEN [heat_idx |-> num_heats - 1, direction |-> -1]
        ELSE IF i < 0 THEN [heat_idx |-> 0, direction |-> 1]
        ELSE [heat_idx |-> i, direction |-> direction]

build_partner_units(competitors, ev) ==
    [i \in DOMAIN competitors |-> <<competitors[i]>>]

\* One "for _ in range(num_heats)" scan of the draft: st carries the heat lists,
\* the (0-based) heat index and the direction; strict is the first pass, which
\* also refuses a heat holding a gear-sharing partner.
RECURSIVE ScanHeats(_, _, _, _, _, _, _, _)
ScanHeats(st, unit, tries, num_heats, max_per_heat, ev, e, strict) ==
    IF tries = 0 THEN [st EXCEPT !.placed = FALSE]
    ELSE LET cur == st.heats[st.heat_idx + 1]
             fits ==
                /\ Len(cur) + Len(unit) <= max_per_heat
                /\ strict => ~ \E i \in DOMAIN unit :
                                 has_gear_sharing_conflict(unit[i], cur, ev, e)
         IN  IF fits
             THEN [st EXCEPT !.heats[st.heat_idx + 1] = cur \o unit, !.placed = TRUE]
             ELSE LET n == advance_snake_index(st.heat_idx, st.direction, num_heats)
                  IN  ScanHeats([st EXCEPT !.heat_idx = n.heat_idx,
                                           !.direction = n.direction],
                                unit, tries - 1, num_heats, max_per_heat, ev, e, strict)

RECURSIVE PlaceUnits(_, _, _, _, _, _)
PlaceUnits(units, st, num_heats, max_per_heat, ev, e) ==
    IF units = << >> THEN st
    ELSE LET first == ScanHeats(st, Head(units), num_heats, num_heats,
                                max_per_heat, ev, e, TRUE)
             second == IF first.placed THEN first
                       ELSE ScanHeats(first, Head(units), num_heats, num_heats,
                                      max_per_heat, ev, e, FALSE)
             n == advance_snake_index(second.heat_idx, second.direction, num_heats)
         IN  PlaceUnits(Tail(units),
                        [second EXCEPT !.heat_idx = n.heat_idx,
                                       !.direction = n.direction],
                        num_heats, max_per_heat, ev, e)

generate_standard_heats(competitors, num_heats, max_per_heat, ev, e) ==
    PlaceUnits(build_partner_units(competitors, ev),
               [heats |-> [i \in 1 .. num_heats |-> << >>],
                heat_idx |-> 0, direction |-> 1, placed |-> FALSE],
               num_heats, max_per_heat, ev, e).heats

generate_saw_heats(competitors, num_heats, max_per_heat, ev, e) ==
    LET actual_max == Min(max_per_heat, 4)
    IN  generate_standard_heats(competitors, CeilDiv(Len(competitors), actual_max),
                                actual_max, ev, e)

stand_numbers_for_event(ev, max_per_heat) ==
    IF ev.event_type = "college" /\ normalize_name(ev.name) = normalize_name("Stock Saw")
    THEN SubSeq(<<7, 8>>, 1, Min(2, max_per_heat))
    ELSE IF SpecificStands(ev.stand_type) # << >>
    THEN SubSeq(SpecificStands(ev.stand_type), 1,
                Min(Len(SpecificStands(ev.stand_type)), max_per_heat))
    ELSE [i \in 1 .. max_per_heat |-> i]

Reverse(s) == [i \in DOMAIN s |-> s[Len(s) + 1 - i]]

HeatRows(e, heat_lists, run_number, stand_numbers) ==
    [n \in DOMAIN heat_lists |->
        NewHeat(e, n, run_number,
                [i \in DOMAIN heat_lists[n] |-> heat_lists[n][i].id],
                [c \in {heat_lists[n][i].id : i \in DOMAIN heat_lists[n]} |->
                    stand_numbers[CHOOSE i \in DOMAIN heat_lists[n] :
                                     heat_lists[n][i].id = c]])]

\* generate_event_heats: ok = FALSE stands for the exception the route catches
\* (no entrants, or the bulk DELETE of heats that HeatAssignment rows still
\* reference); nothing is committed then.
generate_event_heats(d, e) ==
    LET ev == d.events[e]
        found == get_event_competitors(d, e)
        competitors == found.competitors
        with_results == [d EXCEPT !.results = InsertAll(@, found.added)]
        referenced == \E a \in DOMAIN d.heat_assignments :
                         d.heat_assignments[a].heat_id \in EventHeatIds(d, e)
        cleared == Restrict(d.heats, DOMAIN d.heats \ EventHeatIds(d, e))
        max_per_heat == IF ev.stand_type \in KnownStandTypes
                        THEN StandTotal(ev.stand_type) ELSE 4
        num_heats == CeilDiv(Len(competitors), max_per_heat)
        heat_lists ==
            IF ev.stand_type = "saw_hand"
            THEN generate_saw_heats(competitors, num_heats, max_per_heat, ev, e)
            ELSE generate_standard_heats(competitors, num_heats, max_per_heat, ev, e)
        stand_numbers == stand_numbers_for_event(ev, max_per_heat)
        run1 == HeatRows(e, heat_lists, 1, stand_numbers)
        run2 == IF ev.requires_dual_runs
                THEN HeatRows(e, heat_lists, 2, Reverse(stand_numbers))
                ELSE << >>
    IN  IF competitors = << >> \/ referenced THEN [ok |-> FALSE, db |-> d]
        ELSE IF is_list_only_event(ev)
        THEN [ok |-> TRUE,
              db |-> [with_results EXCEPT !.heats = cleared,
                                          !.events[e].status = "in_progress"]]
        ELSE [ok |-> TRUE,
              db |-> [with_results EXCEPT !.heats = InsertAll(cleared, run1 \o run2),
                                          !.events[e].status = "in_progress"]]


\* ------------------------------------------------- the SQLAlchemy unit of work
\* A session holds the rows as they were read (snap) and as the handler left
\* them (work).  Flushing writes, for every row with a net change, an UPDATE of
\* the changed columns only; a Heat or EventResult UPDATE carries
\* "WHERE version_id = <version read>" and bumps the version; an UPDATE that
\* matches no row is a StaleDataError; an INSERT that repeats a unique key is
\* an IntegrityError.  cur is the committed database at flush time.
MergeRow(c, s, w) == [f \in DOMAIN w |-> IF w[f] # s[f] THEN w[f] ELSE c[f]]

DirtyIds(snap_table, work_table) ==
    {k \in DOMAIN snap_table \cap DOMAIN work_table : work_table[k] # snap_table[k]}

AddedRows(snap_table, work_table) ==
    LET ks == SortedSeq(DOMAIN work_table \ DOMAIN snap_table)
    IN  [i \in DOMAIN ks |-> work_table[ks[i]]]

FlushVersioned(snap_table, work_table, cur_table) ==
    LET dirty == DirtyIds(snap_table, work_table)
    IN  [k \in DOMAIN cur_table |->
            IF k \in dirty
            THEN [MergeRow(cur_table[k], snap_table[k], work_table[k])
                    EXCEPT !.version_id = snap_table[k].version_id + 1]
            ELSE cur_table[k]]

FlushPlain(snap_table, work_table, cur_table) ==
    LET dirty == DirtyIds(snap_table, work_table)
    IN  [k \in DOMAIN cur_table |->
            IF k \in dirty
            THEN MergeRow(cur_table[k], snap_table[k], work_table[k])
            ELSE cur_table[k]]

StaleVersioned(snap_table, work_table, cur_table) ==
    \E k \in DirtyIds(snap_table, work_table) :
        \/ k \notin DOMAIN cur_table
        \/ cur_table[k].version_id # snap_table[k].version_id

StalePlain(snap_table, work_table, cur_table) ==
    \E k \in DirtyIds(snap_table, work_table) : k \notin DOMAIN cur_table

DuplicateResult(snap, work, cur) ==
    LET added == AddedRows(snap.results, work.results)
    IN  \E i \in DOMAIN added : \E r \in DOMAIN cur.results :
            /\ cur.results[r].event_id = added[i].event_id
            /\ cur.results[r].competitor_id = added[i].competitor_id

FlushFails(snap, work, cur) ==
    \/ StaleVersioned(snap.heats, work.heats, cur.heats)
    \/ StaleVersioned(snap.results, work.results, cur.results)
    \/ StalePlain(snap.college, work.college, cur.college)
    \/ StalePlain(snap.pro, work.pro, cur.pro)
    \/ StalePlain(snap.teams, work.teams, cur.teams)
    \/ StalePlain(snap.events, work.events, cur.events)
    \/ DuplicateResult(snap, work, cur)

Flush(snap, work, cur) ==
    [heats |-> FlushVersioned(snap.heats, work.heats, cur.heats),
     heat_assignments |->
        InsertAll(cur.heat_assignments,
                  AddedRows(snap.heat_assignments, work.heat_assignments)),
     results |->
        InsertAll(FlushVersioned(snap.results, work.results, cur.results),
                  AddedRows(snap.results, work.results)),
     college |-> FlushPlain(snap.college, work.college, cur.college),
     pro |-> FlushPlain(snap.pro, work.pro, cur.pro),
     teams |-> FlushPlain(snap.teams, work.teams, cur.teams),
     events |-> FlushPlain(snap.events, work.events, cur.events),
     audit |-> cur.audit \o SubSeq(work.audit, Len(snap.audit) + 1, Len(work.audit))]

\* ---------------------------------------------------------- services/audit.py
log_action(d, action, entity_type, entity_id) ==
    [d EXCEPT !.audit = Append(@, [action |-> action, entity_type |-> entity_type,
                                   entity_id |-> entity_id])]

\* ------------------------------------------------------- routes/scheduling.py
next_open_stand(target_ids, assignments, ev) ==
    LET config_total == IF ev.stand_type \in KnownStandTypes
                        THEN StandTotal(ev.stand_type)
                        ELSE IF Len(target_ids) > 1 THEN Len(target_ids) ELSE 1
        total == IF ev.stand_type = "saw_hand" THEN Min(config_total, 4)
                 ELSE config_total
        available ==
            IF ev.event_type = "college"
               /\ normalize_name(ev.name) = normalize_name("Stock Saw")
            THEN <<7, 8>>
            ELSE IF SpecificStands(ev.stand_type) # << >>
            THEN SpecificStands(ev.stand_type)
            ELSE [i \in 1 .. total |-> i]
        used == {assignments[c] : c \in DOMAIN assignments}
        open == {i \in DOMAIN available : available[i] \notin used}
    IN  IF open # {} THEN available[CHOOSE i \in open : \A j \in open : i <= j]
        ELSE available[1]

HeatByNumber(d, e, heat_number, run_number) ==
    {h \in EventHeatIds(d, e) : /\ d.heats[h].heat_number = heat_number
                                /\ d.heats[h].run_number = run_number}

\* One (source, target) pair of the move loop.
MovePair(d, ev, competitor_id, source, target) ==
    LET target_ids == d.heats[target].competitors
        target_assignments == d.heats[target].stand_assignments
        stand == next_open_stand(target_ids, target_assignments, ev)
    IN  IF competitor_id \in Range(target_ids) THEN d
        ELSE [d EXCEPT
                !.heats[source].competitors = Remove(@, competitor_id),
                !.heats[source].stand_assignments =
                    Restrict(@, DOMAIN @ \ {competitor_id}),
                !.heats[target].competitors = Append(@, competitor_id),
                !.heats[target].stand_assignments =
                    (competitor_id :> stand) @@ target_assignments]

RECURSIVE MovePairs(_, _, _, _, _, _)
MovePairs(d, e, competitor_id, from_number, to_number, run_numbers) ==
    IF run_numbers = << >> THEN [ok |-> TRUE, db |-> d]
    ELSE LET source == CHOOSE h \in HeatByNumber(d, e, from_number, Head(run_numbers)) : TRUE
             target == CHOOSE h \in HeatByNumber(d, e, to_number, Head(run_numbers)) : TRUE
         IN  IF competitor_id \notin Range(d.heats[source].competitors)
             THEN [ok |-> FALSE, db |-> d]
             ELSE MovePairs(MovePair(d, d.events[e], competitor_id, source, target),
                            e, competitor_id, from_number, to_number, Tail(run_numbers))

\* move_competitor_between_heats: ok = FALSE is any of the early returns, which
\* leave the session uncommitted.
move_competitor_between_heats(d, e, competitor_id, from_heat_id, to_heat_id) ==
    LET from_heat == d.heats[from_heat_id]
        to_heat == d.heats[to_heat_id]
        run_numbers == IF d.events[e].requires_dual_runs THEN <<1, 2>>
                       ELSE <<from_heat.run_number>>
        missing == \E i \in DOMAIN run_numbers :
                      \/ HeatByNumber(d, e, from_heat.heat_number, run_numbers[i]) = {}
                      \/ HeatByNumber(d, e, to_heat.heat_number, run_numbers[i]) = {}
    IN  IF from_heat_id = to_heat_id \/ missing THEN [ok |-> FALSE, db |-> d]
        ELSE LET moved == MovePairs(d, e, competitor_id, from_heat.heat_number,
                                    to_heat.heat_number, run_numbers)
             IN  IF moved.ok THEN [ok |-> TRUE, db |-> Flush(d, moved.db, d)]
                 ELSE [ok |-> FALSE, db |-> d]

\* heat_sync_fix: the HeatAssignment rows of every heat of the event are
\* replaced by rows built from the heat's JSON list and committed.  The
\* log_action call follows the commit, in a session that is never committed
\* again, so its row is not part of the result.
heat_sync_fix(d, e) ==
    LET hs == SortedSeq(EventHeatIds(d, e))
        kept == Restrict(d.heat_assignments,
                         {a \in DOMAIN d.heat_assignments :
                             d.heat_assignments[a].heat_id \notin EventHeatIds(d, e)})
        RowsOf(h) ==
            [i \in DOMAIN d.heats[h].competitors |->
                LET c == d.heats[h].competitors[i]
                IN  [heat_id |-> h, competitor_id |-> c,
                     competitor_type |-> d.events[e].event_type,
                     stand_number |->
                        IF c \in DOMAIN d.heats[h].stand_assignments
                        THEN d.heats[h].stand_assignments[c] ELSE 0]]
        Rows[n \in 0 .. Len(hs)] ==
            IF n = 0 THEN << >> ELSE Rows[n - 1] \o RowsOf(hs[n])
    IN  [d EXCEPT !.heat_assignments = InsertAll(kept, Rows[Len(hs)])]

\* ----------------------------------------------------- routes/registration.py
remove_college_competitor_from_unfinished_heats(d, competitor_id) ==
    [d EXCEPT !.heats =
        [h \in DOMAIN d.heats |->
            IF /\ d.events[d.heats[h].event_id].event_type = "college"
               /\ d.heats[h].status # "completed"
               /\ competitor_id \in Range(d.heats[h].competitors)
            THEN [d.heats[h] EXCEPT
                    !.competitors = Remove(@, competitor_id),
                    !.stand_assignments = Restrict(@, DOMAIN @ \ {competitor_id})]
            ELSE d.heats[h]]]

\* The bulk UPDATE of scratch_college_competitor: it bypasses the unit of work,
\* so it bumps no version.
ScratchOpenResults(d, competitor_id) ==
    [d EXCEPT !.results =
        [r \in DOMAIN d.results |->
            IF /\ d.events[d.results[r].event_id].event_type = "college"
               /\ d.results[r].competitor_id = competitor_id
               /\ d.results[r].status # "completed"
            THEN [d.results[r] EXCEPT !.status = "scratched"]
            ELSE d.results[r]]]

scratch_college_competitor(d, competitor_id) ==
    LET work == remove_college_competitor_from_unfinished_heats(
                    [d EXCEPT !.college[competitor_id].status = "scratched"],
                    competitor_id)
    IN  ScratchOpenResults(Flush(d, work, d), competitor_id)

delete_college_competitor(d, competitor_id) ==
    LET work == remove_college_competitor_from_unfinished_heats(d, competitor_id)
        flushed == Flush(d, work, d)
        kept == {r \in DOMAIN flushed.results :
                    ~ (/\ d.events[flushed.results[r].event_id].event_type = "college"
                       /\ flushed.results[r].competitor_id = competitor_id)}
    IN  [flushed EXCEPT
            !.results = Restrict(@, kept),
            !.college = Restrict(@, DOMAIN @ \ {competitor_id})]


\* ----------------------------------------------------------- routes/scoring.py
Metric(ev, row) == IF ev.requires_dual_runs THEN row.best_run ELSE row.result_value

\* The sort key order of _calculate_positions: a missing metric sorts last
\* under both scoring orders.
SortsBefore(ev, a, b) ==
    LET ma == Metric(ev, a)
        mb == Metric(ev, b)
    IN  IF ev.scoring_order = "lowest_wins"
        THEN ma # 0 /\ (mb = 0 \/ ma < mb)
        ELSE ma # 0 /\ (mb = 0 \/ ma > mb)

get_payout_for_position(ev, position) ==
    IF position \in DOMAIN ev.payouts THEN ev.payouts[position] ELSE 0

\* _flag_score_outliers: with n values of sum S, |v - mean| > 2 * stdev is
\* (n - 1) * (n*v - S)^2 > 4 * SUM (n*x - S)^2 in integers (sample deviation).
flag_score_outliers(d, e, completed) ==
    LET ev == d.events[e]
        valued == {r \in completed : Metric(ev, d.results[r]) # 0}
        n == Cardinality(valued)
        S == SumOver(valued, [r \in valued |-> Metric(ev, d.results[r])])
        Dev(r) == n * Metric(ev, d.results[r]) - S
        SS == SumOver(valued, [r \in valued |-> Dev(r) * Dev(r)])
    IN  [d EXCEPT !.results =
            [r \in DOMAIN d.results |->
                IF r \notin completed THEN d.results[r]
                ELSE [d.results[r] EXCEPT !.is_flagged =
                        /\ n >= 3
                        /\ r \in valued
                        /\ SS > 0
                        /\ (n - 1) * Dev(r) * Dev(r) > 4 * SS]]]

recalculate_points(d, team_id) ==
    LET active_members == {c \in DOMAIN d.college :
                              /\ d.college[c].team_id = team_id
                              /\ d.college[c].status = "active"}
    IN  SumOver(active_members,
                [c \in active_members |-> d.college[c].individual_points])

UnawardNothing(total, awarded) == total

\* max(0, total - awarded)
Unaward(total, awarded) == IF total - awarded > 0 THEN total - awarded ELSE 0

calculate_positions(d, e) ==
    LET ev == d.events[e]
        is_college == ev.event_type = "college"
        rids == EventResultIds(d, e)
        Awarded(r) == IF is_college THEN d.results[r].points_awarded
                      ELSE d.results[r].payout_amount
        undone == {r \in rids : Awarded(r) # 0}
        \* (event_id, competitor_id, competitor_type) is unique, so at most one
        \* row of the event belongs to a competitor.
        Taken(c) == SumOver({r \in undone : d.results[r].competitor_id = c},
                            [r \in undone |-> Awarded(r)])
        undo_results ==
            [r \in DOMAIN d.results |->
                IF r \notin undone THEN d.results[r]
                ELSE IF is_college
                THEN [d.results[r] EXCEPT !.points_awarded = 0, !.final_position = 0]
                ELSE [d.results[r] EXCEPT !.payout_amount = 0, !.final_position = 0]]
        undo_college ==
            IF ~ is_college THEN d.college
            ELSE [c \in DOMAIN d.college |->
                    [d.college[c] EXCEPT !.individual_points = Unaward(@, Taken(c))]]
        undo_pro ==
            IF is_college THEN d.pro
            ELSE [c \in DOMAIN d.pro |->
                    [d.pro[c] EXCEPT !.total_earnings = Unaward(@, Taken(c))]]
        completed == {r \in rids : d.results[r].status = "completed"}
        Position(r) ==
            1 + Cardinality({q \in completed :
                    \/ SortsBefore(ev, d.results[q], d.results[r])
                    \/ /\ ~ SortsBefore(ev, d.results[r], d.results[q])
                       /\ q < r})
        Award(r) == IF is_college THEN PlacementPoints(Position(r))
                    ELSE get_payout_for_position(ev, Position(r))
        Won(c) == SumOver({r \in completed : d.results[r].competitor_id = c},
                          [r \in completed |-> Award(r)])
        new_results ==
            [r \in DOMAIN d.results |->
                IF r \notin completed THEN undo_results[r]
                ELSE IF is_college
                THEN [undo_results[r] EXCEPT !.final_position = Position(r),
                                             !.points_awarded = Award(r)]
                ELSE [undo_results[r] EXCEPT !.final_position = Position(r),
                                             !.payout_amount = Award(r)]]
        new_college ==
            [c \in DOMAIN undo_college |->
                [undo_college[c] EXCEPT !.individual_points = @ + Won(c)]]
        new_pro ==
            [c \in DOMAIN undo_pro |->
                [undo_pro[c] EXCEPT !.total_earnings = @ + Won(c)]]
        awarded_db == [d EXCEPT !.results = new_results,
                                !.college = IF is_college THEN new_college ELSE @,
                                !.pro = IF is_college THEN @ ELSE new_pro]
        touched_team_ids ==
            IF ~ is_college THEN {}
            ELSE {d.college[c].team_id :
                    c \in {d.results[r].competitor_id : r \in completed}
                          \cap DOMAIN d.college} \cap DOMAIN d.teams
        with_teams ==
            [awarded_db EXCEPT !.teams =
                [t \in DOMAIN d.teams |->
                    IF t \in touched_team_ids
                    THEN [d.teams[t] EXCEPT
                            !.total_points = recalculate_points(awarded_db, t)]
                    ELSE d.teams[t]]]
    IN  IF completed = {}
        THEN [d EXCEPT !.results = undo_results, !.college = undo_college,
                       !.pro = undo_pro, !.events[e].status = "in_progress"]
        ELSE [flag_score_outliers(with_teams, e, completed)
                EXCEPT !.events[e].status = "completed"]


calculate_best_run(row) ==
    IF row.run1_value # 0 /\ row.run2_value # 0
    THEN [row EXCEPT !.best_run = Min(row.run1_value, row.run2_value),
                     !.result_value = Min(row.run1_value, row.run2_value)]
    ELSE IF row.run1_value # 0
    THEN [row EXCEPT !.best_run = row.run1_value, !.result_value = row.run1_value]
    ELSE IF row.run2_value # 0
    THEN [row EXCEPT !.best_run = row.run2_value, !.result_value = row.run2_value]
    ELSE row

\* A posted form gives, per competitor of the heat, a value (0: left blank,
\* -1: text that does not parse as a number) and a status; a "dnf" entry is
\* posted with the placeholder value 1.
FormEntries ==
    [value : (-1) .. MaxValue, status : {"completed"}]
        \cup {[value |-> 1, status |-> "dnf"]}

Forms(competitor_ids) == [Range(competitor_ids) -> FormEntries]

\* _save_heat_results_submission up to, not including, the commit: code 409 is
\* the version check on entry, 400 the "no values entered" return, 200 a
\* session left ready to commit.
save_heat_results_submission(d, h, posted_heat_version, form) ==
    LET heat == d.heats[h]
        e == heat.event_id
        ev == d.events[e]
        competitor_ids == heat.competitors
        entered == SelectSeq(competitor_ids, LAMBDA c : form[c].value > 0)
        RowOf(c) == {r \in EventResultIds(d, e) : d.results[r].competitor_id = c}
        Entry(row, c) ==
            [(IF ev.requires_dual_runs
              THEN IF heat.run_number = 1
                   THEN calculate_best_run([row EXCEPT !.run1_value = form[c].value])
                   ELSE calculate_best_run([row EXCEPT !.run2_value = form[c].value])
              ELSE [row EXCEPT !.result_value = form[c].value])
             EXCEPT !.status = form[c].status]
        created == SelectSeq(entered, LAMBDA c : RowOf(c) = {})
        updated == [r \in DOMAIN d.results |->
                      IF /\ r \in EventResultIds(d, e)
                         /\ d.results[r].competitor_id \in Range(entered)
                      THEN Entry(d.results[r], d.results[r].competitor_id)
                      ELSE d.results[r]]
        written == [d EXCEPT
                      !.results =
                          InsertAll(updated,
                                    [i \in DOMAIN created |->
                                        Entry(NewResult(e, created[i]), created[i])]),
                      !.heats[h].status = "completed"]
        all_heats_complete ==
            \A g \in EventHeatIds(written, e) : written.heats[g].status = "completed"
        positioned == IF all_heats_complete /\ ~ ev.requires_dual_runs
                      THEN calculate_positions(written, e) ELSE written
    IN  IF posted_heat_version # heat.version_id THEN [code |-> 409, work |-> d]
        ELSE IF entered = << >> THEN [code |-> 400, work |-> d]
        ELSE [code |-> 200,
              work |-> log_action(positioned, "heat_results_saved", "heat", h)]

finalize_event(d, e) ==
    log_action(calculate_positions(d, e), "event_finalized", "event", e)

\* --------------------------------------------------------- request workers
Workers == {1, 2}

Idle == [pc |-> "idle"]

NoRace == [active |-> FALSE, heat |-> 0, version |-> 0, codes |-> [w \in Workers |-> 0]]

OpenSessions == {w \in Workers : sess[w].pc # "idle"}

\* The workers are interchangeable: a request that arrives while both are idle
\* is taken by worker 1.
MayBegin(w) == w = 1 \/ sess[1].pc # "idle"


\* ---------------------------------------------- services/report_cache.py
\* A cache key is the sequence of the tokens of its string, a tournament id
\* being written digit by digit, so that str.startswith is a prefix test on
\* sequences.
Tournaments == {1, 10}

DigitChar(d) == <<"0", "1", "2", "3", "4", "5", "6", "7", "8", "9">>[d + 1]

RECURSIVE Digits(_)
Digits(n) ==
    IF n < 10 THEN <<DigitChar(n)>>
    ELSE Digits(n \div 10) \o <<DigitChar(n % 10)>>

\* f'reports:{tournament_id}:college_standings'
ReportKey(tid, name) == <<"reports", ":">> \o Digits(tid) \o <<":", name>>

\* f'portal:college:{tournament_id}'
PortalKey(division, tid) == <<"portal", ":", division, ":">> \o Digits(tid)

\* The payloads the model caches for tournament tid.
KeysOf(tid) == {ReportKey(tid, "college_standings"), PortalKey("college", tid)}

StartsWith(key, prefix) ==
    /\ Len(prefix) <= Len(key)
    /\ SubSeq(key, 1, Len(prefix)) = prefix

\* A payload is identified by the number of committed writes it was built
\* from; None is what get returns for a missing or an expired entry.
None == -1

cache_get(c, key) ==
    IF key \notin DOMAIN c THEN [value |-> None, cache |-> c]
    ELSE IF c[key].expired
         THEN [value |-> None, cache |-> Restrict(c, DOMAIN c \ {key})]
         ELSE [value |-> c[key].value, cache |-> c]

cache_set(c, key, value) ==
    [k \in DOMAIN c \cup {key} |->
        IF k = key THEN [value |-> value, expired |-> FALSE] ELSE c[k]]

invalidate_prefix(c, prefix) ==
    Restrict(c, {k \in DOMAIN c : ~StartsWith(k, prefix)})

invalidate_tournament_caches(c, tid) ==
    LET c1 == invalidate_prefix(c, <<"reports", ":">> \o Digits(tid) \o <<":">>)
        c2 == invalidate_prefix(c1, <<"portal", ":", "college", ":">> \o Digits(tid))
        c3 == invalidate_prefix(c2, <<"portal", ":", "pro", ":">> \o Digits(tid))
    IN  invalidate_prefix(c3, <<"api", ":", "standings-poll", ":">> \o Digits(tid))

Readers == {1, 2}

ReaderIdle == [pc |-> "idle"]

WriterIdle == [pc |-> "idle"]

NothingServed == [hit |-> FALSE, tid |-> 0, payload |-> None, latest |-> None]

CacheStart ==
    /\ cache = EmptyTable
    /\ store_rev = [t \in Tournaments |-> 0]
    /\ reader = [r \in Readers |-> ReaderIdle]
    /\ writer = WriterIdle
    /\ served = NothingServed

\* ----------------------------------------------- services/proam_relay.py
NotDrawn ==
    [status |-> "not_drawn", teams |-> << >>, eligible_college |-> {},
     eligible_pro |-> {}, drawn_college |-> {}, drawn_pro |-> {}]

get_eligible_pro_competitors(d) ==
    {c \in DOMAIN d.pro :
        d.pro[c].status = "active" /\ d.pro[c].pro_am_lottery_opt_in}

get_eligible_college_competitors(d) ==
    {c \in DOMAIN d.college :
        d.college[c].status = "active" /\ d.college[c].pro_am_lottery_opt_in}

LotteryPools(d) ==
    [pro_male |-> {c \in get_eligible_pro_competitors(d) : d.pro[c].gender = "M"},
     pro_female |-> {c \in get_eligible_pro_competitors(d) : d.pro[c].gender = "F"},
     college_male |->
        {c \in get_eligible_college_competitors(d) : d.college[c].gender = "M"},
     college_female |->
        {c \in get_eligible_college_competitors(d) : d.college[c].gender = "F"}]

PairsOf(S) == {p \in SUBSET S : Cardinality(p) = 2}

RELAY_EVENTS ==
    {"partnered_sawing", "standing_butcher_block", "underhand_butcher_block",
     "team_axe_throw"}

\* The events of a team as the lottery creates them; a result not yet
\* recorded is None.
PendingRelayEvents == [name \in RELAY_EVENTS |-> [result |-> None, status |-> "pending"]]

\* random.shuffle of the four pools, then two from the head of each pool per
\* team: every way of dealing num_teams teams.  The order of the members
\* inside a team is not kept.
RECURSIVE Deals(_, _, _)
Deals(pools, team_num, num_teams) ==
    IF team_num > num_teams THEN {<< >>}
    ELSE UNION {
           {<<[team_number |-> team_num, pro_members |-> pm \cup pf,
               college_members |-> cm \cup cf, events |-> PendingRelayEvents,
               total_time |-> None]>> \o rest :
              rest \in Deals([pro_male |-> pools.pro_male \ pm,
                              pro_female |-> pools.pro_female \ pf,
                              college_male |-> pools.college_male \ cm,
                              college_female |-> pools.college_female \ cf],
                             team_num + 1, num_teams)} :
           pm \in PairsOf(pools.pro_male), pf \in PairsOf(pools.pro_female),
           cm \in PairsOf(pools.college_male), cf \in PairsOf(pools.college_female)}

\* run_lottery: the outcomes (relay_data after _save_relay_data) it can
\* produce; the empty set when it raises ValueError before writing anything.
run_lottery(d, num_teams) ==
    LET pools == LotteryPools(d)
        required_per_bucket == num_teams * 2
    IN  IF \/ Cardinality(pools.pro_male) < required_per_bucket
           \/ Cardinality(pools.pro_female) < required_per_bucket
           \/ Cardinality(pools.college_male) < required_per_bucket
           \/ Cardinality(pools.college_female) < required_per_bucket
        THEN {}
        ELSE {[status |-> "drawn", teams |-> dealt,
               eligible_college |-> get_eligible_college_competitors(d),
               eligible_pro |-> get_eligible_pro_competitors(d),
               drawn_college |->
                  UNION {dealt[i].college_members : i \in DOMAIN dealt},
               drawn_pro |-> UNION {dealt[i].pro_members : i \in DOMAIN dealt}] :
              dealt \in Deals(pools, 1, num_teams)}

scratch_pro_competitor(d, competitor_id) ==
    [d EXCEPT !.pro[competitor_id].status = "scratched"]

RelayStart ==
    /\ relay = NotDrawn
    /\ relay_outcome = "none"

\* No flight has been built: no heat has a flight.
FlightStart ==
    /\ ordered_heats = << >>
    /\ flight_id = EmptyTable

\* _load_state on an event that holds no Partnered Axe Throw state.
AxeNotStarted ==
    [stage |-> "prelims", prelim_results |-> << >>, finalists |-> << >>,
     final_results |-> << >>, pairs |-> << >>]

\* _load_bracket_data on an event that holds no bracket.
NoBracket ==
    [bracket |-> [winners |-> << >>, losers |-> << >>, finals |-> None,
                  true_finals |-> None],
     competitors |-> << >>, seeding |-> << >>, placements |-> EmptyTable]

SbIdle == [pc |-> "idle"]

NoJobs == EmptyTable

HttpIdle == [pc |-> "idle"]

ProcStart ==
    /\ sb = SbIdle
    /\ jobs = NoJobs
    /\ http = HttpIdle
    /\ import_outcome = "none"

ExtStart ==
    /\ FlightStart
    /\ axe = AxeNotStarted
    /\ bracket_data = NoBracket
    /\ ProcStart

\* --------------------------------------------------------------- initial rows
CollegeRow(c) ==
    [team_id |-> TeamOf(c), gender |-> "M", individual_points |-> 0,
     status |-> "active", gear_sharing |-> EmptyTable,
     events_entered |-> {}, pro_am_lottery_opt_in |-> FALSE]

ProRow(c) ==
    [gender |-> "M", total_earnings |-> 0, status |-> "active",
     is_left_handed_springboard |-> FALSE, gear_sharing |-> EmptyTable,
     events_entered |-> {}, pro_am_lottery_opt_in |-> FALSE]

Payouts == <<5, 3, 2>>

EventRow(name, event_type, stand_type, dual) ==
    [name |-> name, event_type |-> event_type, gender |-> "M",
     scoring_order |-> "lowest_wins", requires_dual_runs |-> dual,
     stand_type |-> stand_type, is_partnered |-> FALSE,
     payouts |-> IF event_type = "pro" THEN Payouts ELSE << >>,
     status |-> "pending"]

\* events_entered of competitor c: the events of its entries.
EnteredIn(entries, c) == {entries[i][1] : i \in {j \in DOMAIN entries : entries[j][2] = c}}

\* A tournament after registration and event setup: competitors of one
\* division, their teams, the given events, entries as pending EventResult
\* rows (entries[i] = <<event, competitor>>), no heats yet.
Registered(event_type, event_rows, entries) ==
    [heats |-> EmptyTable,
     heat_assignments |-> EmptyTable,
     results |-> [i \in DOMAIN entries |-> NewResult(entries[i][1], entries[i][2])],
     college |-> IF event_type = "college"
                 THEN [c \in Comps |->
                         [CollegeRow(c) EXCEPT !.events_entered =
                                                  EnteredIn(entries, c)]]
                 ELSE EmptyTable,
     pro |-> IF event_type = "pro"
             THEN [c \in Comps |->
                     [ProRow(c) EXCEPT !.events_entered = EnteredIn(entries, c)]]
             ELSE EmptyTable,
     teams |-> IF event_type = "college"
               THEN [t \in {TeamOf(c) : c \in Comps} |-> [total_points |-> 0]]
               ELSE EmptyTable,
     events |-> event_rows,
     audit |-> << >>]

RECURSIVE GenerateAll(_, _)
GenerateAll(d, es) ==
    IF es = {} THEN d
    ELSE LET e == CHOOSE x \in es : \A y \in es : x <= y
         IN  GenerateAll(generate_event_heats(d, e).db, es \ {e})

\* Scoring scenarios, heats generated: one event entered by everybody, or two
\* events with competitor 1 entered in both.
OneEvent(event_type) ==
    Registered(event_type,
               <<EventRow("Obstacle Pole", event_type, "obstacle_pole", FALSE)>>,
               [i \in Comps |-> <<1, i>>])

TwoEvents(event_type) ==
    Registered(event_type,
               <<EventRow("Obstacle Pole", event_type, "obstacle_pole", FALSE),
                 EventRow("Underhand", event_type, "underhand", FALSE)>>,
               <<<<1, 1>>, <<2, 1>>, <<2, 2>>>>)

ScoringScenarios ==
    {GenerateAll(d, DOMAIN d.events) :
        d \in {OneEvent("college"), TwoEvents("pro")}}

Init ==
    /\ \E d \in ScoringScenarios :
          /\ heats = d.heats
          /\ heat_assignments = d.heat_assignments
          /\ results = d.results
          /\ college = d.college
          /\ pro = d.pro
          /\ teams = d.teams
          /\ events = d.events
          /\ audit = d.audit
    /\ sess = [w \in Workers |-> Idle]
    /\ race = NoRace
    /\ CacheStart
    /\ RelayStart
    /\ ExtStart

\* ------------------------------------------------------------ scoring actions
\* A submission of results for heat h starts: the handler reads the committed
\* rows, applies the form in its session and is ready to commit.
BeginSubmit(w, h) ==
    /\ sess[w].pc = "idle"
    /\ MayBegin(w)
    /\ Len(audit) + Cardinality(OpenSessions) < MaxAudit
    /\ \E posted \in 1 .. heats[h].version_id :
          IF posted # heats[h].version_id
          THEN \* 409 on entry: nothing was read or written
               /\ save_heat_results_submission(DB, h, posted, << >>).code = 409
               /\ UNCHANGED sess
               /\ race' = NoRace
          ELSE \E form \in Forms(heats[h].competitors) :
                 LET out == save_heat_results_submission(DB, h, posted, form)
                     rival == {o \in Workers \ {w} :
                                 /\ sess[o].pc = "flush"
                                 /\ sess[o].request = "submit"
                                 /\ sess[o].heat = h
                                 /\ sess[o].snap.heats[h].version_id = posted}
                 IN  IF out.code = 200
                     THEN /\ sess' = [sess EXCEPT ![w] =
                                        [pc |-> "flush", request |-> "submit",
                                         heat |-> h, snap |-> DB, work |-> out.work]]
                          /\ race' = IF rival # {}
                                     THEN [active |-> TRUE, heat |-> h,
                                           version |-> posted,
                                           codes |-> [o \in Workers |-> 0]]
                                     ELSE NoRace
                     ELSE /\ UNCHANGED sess
                          /\ race' = NoRace
    /\ UNCHANGED <<dbvars, cachevars, relayvars, extvars>>

BeginFinalize(w, e) ==
    /\ sess[w].pc = "idle"
    /\ MayBegin(w)
    /\ Len(audit) + Cardinality(OpenSessions) < MaxAudit
    /\ sess' = [sess EXCEPT ![w] =
                  [pc |-> "flush", request |-> "finalize", heat |-> 0,
                   snap |-> DB, work |-> finalize_event(DB, e)]]
    /\ race' = NoRace
    /\ UNCHANGED <<dbvars, cachevars, relayvars, extvars>>

\* db.session.commit(): the flush succeeds and everything is committed, or it
\* raises StaleDataError / IntegrityError and the handler rolls back.
Commit(w) ==
    /\ sess[w].pc = "flush"
    /\ LET fails == FlushFails(sess[w].snap, sess[w].work, DB)
           code == IF fails THEN 409 ELSE 200
       IN  /\ IF fails THEN UNCHANGED dbvars
              ELSE Store(Flush(sess[w].snap, sess[w].work, DB))
           /\ race' = IF race.active THEN [race EXCEPT !.codes[w] = code] ELSE race
    /\ sess' = [sess EXCEPT ![w] = Idle]
    /\ UNCHANGED <<cachevars, relayvars, extvars>>

\* The competitor whose scratch and delete the scoring runs explore.
Removable == {NumComps}

Removed == {c \in Comps : c \notin DOMAIN college \/ college[c].status # "active"}

ScratchCollege(c) ==
    /\ c \in DOMAIN college
    /\ Cardinality(Removed \cup {c}) <= MaxRemoved
    /\ Store(scratch_college_competitor(DB, c))
    /\ race' = NoRace
    /\ UNCHANGED <<sess, cachevars, relayvars, extvars>>

DeleteCollege(c) ==
    /\ c \in DOMAIN college
    /\ Cardinality(Removed \cup {c}) <= MaxRemoved
    /\ Store(delete_college_competitor(DB, c))
    /\ race' = NoRace
    /\ UNCHANGED <<sess, cachevars, relayvars, extvars>>

Next ==
    \/ \E w \in Workers : \E h \in DOMAIN heats : BeginSubmit(w, h)
    \/ \E w \in Workers : \E e \in DOMAIN events : BeginFinalize(w, e)
    \/ \E w \in Workers : Commit(w)
    \/ \E c \in Removable : ScratchCollege(c)
    \/ \E c \in Removable : DeleteCollege(c)

Spec == Init /\ [][Next]_vars


\* ------------------------------------------------------------- heat editing
\* Scheduling scenarios: one event of a tournament whose competitors are
\* registered, no entries and no heats yet.
HeatEventRows ==
    {EventRow("Stock Saw", "college", "stock_saw", FALSE),
     EventRow("Stock Saw", "pro", "stock_saw", FALSE),
     EventRow("Speed Climb", "college", "speed_climb", TRUE),
     EventRow("Single Buck", "pro", "saw_hand", FALSE),
     EventRow("Axe Throw", "college", "axe_throw", FALSE)}

InitHeats ==
    /\ \E ev \in HeatEventRows :
          LET d == Registered(ev.event_type, <<ev>>, << >>)
          IN  /\ heats = d.heats
              /\ heat_assignments = d.heat_assignments
              /\ results = d.results
              /\ college = d.college
              /\ pro = d.pro
              /\ teams = d.teams
              /\ events = d.events
              /\ audit = d.audit
    /\ sess = [w \in Workers |-> Idle]
    /\ race = NoRace
    /\ CacheStart
    /\ RelayStart
    /\ ExtStart

GenerateHeats(e) ==
    /\ LET out == generate_event_heats(DB, e)
       IN  IF out.ok THEN Store(out.db) ELSE UNCHANGED dbvars
    /\ UNCHANGED <<reqvars, cachevars, relayvars, extvars>>

MoveCompetitor(e, competitor_id, from_heat_id, to_heat_id) ==
    /\ {from_heat_id, to_heat_id} \subseteq EventHeatIds(DB, e)
    /\ \A h \in DOMAIN heats : heats[h].version_id < MaxVersion
    /\ LET out == move_competitor_between_heats(DB, e, competitor_id,
                                                from_heat_id, to_heat_id)
       IN  IF out.ok THEN Store(out.db) ELSE UNCHANGED dbvars
    /\ UNCHANGED <<reqvars, cachevars, relayvars, extvars>>

HeatSyncFix(e) ==
    /\ Store(heat_sync_fix(DB, e))
    /\ UNCHANGED <<reqvars, cachevars, relayvars, extvars>>

NextHeats ==
    \/ \E e \in DOMAIN events : GenerateHeats(e)
    \/ \E e \in DOMAIN events : \E c \in Comps : \E f, t \in DOMAIN heats :
          MoveCompetitor(e, c, f, t)
    \/ \E e \in DOMAIN events : HeatSyncFix(e)
    \/ \E c \in Comps : ScratchCollege(c)
    \/ \E c \in Comps : DeleteCollege(c)

SpecHeats == InitHeats /\ [][NextHeats]_vars

\* ------------------------------------------------------------ cached reads
Loaded(d) ==
    /\ heats = d.heats
    /\ heat_assignments = d.heat_assignments
    /\ results = d.results
    /\ college = d.college
    /\ pro = d.pro
    /\ teams = d.teams
    /\ events = d.events
    /\ audit = d.audit

\* The cache scenarios keep no rows: what a builder reads from the store is
\* summed up in store_rev.
InitCache ==
    /\ Loaded(Registered("pro", << >>, << >>))
    /\ sess = [w \in Workers |-> Idle]
    /\ race = NoRace
    /\ CacheStart
    /\ RelayStart
    /\ ExtStart

\* _cached_payload, first step: cache_get(key).  A hit is returned to the
\* client; after a miss the request goes on to build the payload.
CacheGet(r, tid, key) ==
    /\ reader[r].pc = "idle"
    /\ LET out == cache_get(cache, key)
       IN  /\ cache' = out.cache
           /\ IF out.value # None
              THEN /\ served' = [hit |-> TRUE, tid |-> tid, payload |-> out.value,
                                 latest |-> store_rev[tid]]
                   /\ UNCHANGED reader
              ELSE /\ reader' = [reader EXCEPT ![r] =
                                   [pc |-> "build", tid |-> tid, key |-> key]]
                   /\ UNCHANGED served
    /\ UNCHANGED <<store_rev, writer, dbvars, reqvars, relayvars, extvars>>

\* _cached_payload, second step: payload = builder() reads the committed
\* store.
BuildPayload(r) ==
    /\ reader[r].pc = "build"
    /\ reader' = [reader EXCEPT ![r] =
                    [pc |-> "set", tid |-> reader[r].tid, key |-> reader[r].key,
                     payload |-> store_rev[reader[r].tid]]]
    /\ UNCHANGED <<cache, store_rev, writer, served, dbvars, reqvars, relayvars, extvars>>

\* _cached_payload, last step: cache_set(key, payload, ttl); return payload.
CacheSet(r) ==
    /\ reader[r].pc = "set"
    /\ cache' = cache_set(cache, reader[r].key, reader[r].payload)
    /\ served' = [hit |-> FALSE, tid |-> reader[r].tid,
                  payload |-> reader[r].payload,
                  latest |-> store_rev[reader[r].tid]]
    /\ reader' = [reader EXCEPT ![r] = ReaderIdle]
    /\ UNCHANGED <<store_rev, writer, dbvars, reqvars, relayvars, extvars>>

\* time.time() passes an entry's expires_at.
TtlElapses(key) ==
    /\ key \in DOMAIN cache
    /\ ~cache[key].expired
    /\ cache' = [cache EXCEPT ![key].expired = TRUE]
    /\ UNCHANGED <<store_rev, reader, writer, served, dbvars, reqvars, relayvars, extvars>>

Writes == SumOver(Tournaments, store_rev)

\* A write handler that invalidates (scratch, delete, heat submission,
\* finalization): db.session.commit() ...
CommitWrite(tid) ==
    /\ writer.pc = "idle"
    /\ Writes < MaxWrites
    /\ store_rev' = [store_rev EXCEPT ![tid] = @ + 1]
    /\ writer' = [pc |-> "invalidate", tid |-> tid]
    /\ UNCHANGED <<cache, reader, served, dbvars, reqvars, relayvars, extvars>>

\* ... and then invalidate_tournament_caches(tournament_id).
InvalidateCaches ==
    /\ writer.pc = "invalidate"
    /\ cache' = invalidate_tournament_caches(cache, writer.tid)
    /\ writer' = WriterIdle
    /\ UNCHANGED <<store_rev, reader, served, dbvars, reqvars, relayvars, extvars>>

\* A write handler that commits and does not invalidate (pro entry import,
\* birling bracket finalization, heat generation, relay and Partnered Axe
\* updates).
CommitWithoutInvalidate(tid) ==
    /\ writer.pc = "idle"
    /\ Writes < MaxWrites
    /\ store_rev' = [store_rev EXCEPT ![tid] = @ + 1]
    /\ UNCHANGED <<cache, reader, writer, served, dbvars, reqvars, relayvars, extvars>>

NextCache ==
    \/ \E r \in Readers : \E tid \in Tournaments : \E key \in KeysOf(tid) :
          CacheGet(r, tid, key)
    \/ \E r \in Readers : BuildPayload(r)
    \/ \E r \in Readers : CacheSet(r)
    \/ \E tid \in Tournaments : \E key \in KeysOf(tid) : TtlElapses(key)
    \/ \E tid \in Tournaments : CommitWrite(tid)
    \/ InvalidateCaches
    \/ \E tid \in Tournaments : CommitWithoutInvalidate(tid)

SpecCache == InitCache /\ [][NextCache]_vars

\* ----------------------------------------------------------- relay lottery
\* The relay scenario: RelayPerBucket active, opted-in competitors of each
\* gender in each division; odd ids are men, even ids are women.
RelayComps == 1 .. 2 * RelayPerBucket

RelayGender(c) == IF c % 2 = 1 THEN "M" ELSE "F"

RelayRegistered ==
    [heats |-> EmptyTable, heat_assignments |-> EmptyTable, results |-> EmptyTable,
     college |-> [c \in RelayComps |->
                    [CollegeRow(c) EXCEPT !.gender = RelayGender(c),
                                          !.pro_am_lottery_opt_in = TRUE]],
     pro |-> [c \in RelayComps |->
                [ProRow(c) EXCEPT !.gender = RelayGender(c),
                                  !.pro_am_lottery_opt_in = TRUE]],
     teams |-> [t \in {TeamOf(c) : c \in RelayComps} |-> [total_points |-> 0]],
     events |-> << >>,
     audit |-> << >>]

InitRelay ==
    /\ Loaded(RelayRegistered)
    /\ sess = [w \in Workers |-> Idle]
    /\ race = NoRace
    /\ CacheStart
    /\ RelayStart
    /\ ExtStart

\* redraw_lottery: the cleared relay_data is saved (_save_relay_data commits)
\* and then run_lottery runs; when it raises, the cleared state stays.
redraw_lottery(d, num_teams) ==
    LET outs == run_lottery(d, num_teams)
    IN  IF outs = {} THEN {[raised |-> TRUE, relay |-> NotDrawn]}
        ELSE {[raised |-> FALSE, relay |-> out] : out \in outs}

\* POST .../draw: ValueError is caught and flashed.
DrawLottery(num_teams) ==
    /\ LET outs == run_lottery(DB, num_teams)
       IN  IF outs = {}
           THEN /\ relay_outcome' = "error"
                /\ UNCHANGED relay
           ELSE /\ relay_outcome' = "ok"
                /\ \E out \in outs : relay' = out
    /\ UNCHANGED <<dbvars, reqvars, cachevars, extvars>>

\* POST .../redraw, with the number of teams drawn before (2 when none).
RedrawLottery ==
    /\ LET existing_team_count ==
               IF Len(relay.teams) = 0 THEN 2 ELSE Len(relay.teams)
       IN  \E out \in redraw_lottery(DB, existing_team_count) :
              /\ relay' = out.relay
              /\ relay_outcome' = IF out.raised THEN "error" ELSE "ok"
    /\ UNCHANGED <<dbvars, reqvars, cachevars, extvars>>

ScratchPro(c) ==
    /\ Store(scratch_pro_competitor(DB, c))
    /\ relay_outcome' = "ok"
    /\ UNCHANGED <<relay, reqvars, cachevars, extvars>>

NextRelay ==
    \/ \E num_teams \in 1 .. MaxTeams : DrawLottery(num_teams)
    \/ RedrawLottery
    \/ \E c \in DOMAIN pro : ScratchPro(c)

SpecRelay == InitRelay /\ [][NextRelay]_vars


\* ------------------------------------------------- heat generation inputs
\* One pro event and n registered competitors, of whom the first k entered it;
\* the entries exist as pending EventResult rows (as the pro entry import
\* leaves them) or only in events_entered; pair = <<a, b>> makes a declare
\* crosscut gear shared with b, pair = << >> declares nothing.
GenEventRows ==
    {EventRow("Hot Saw", "pro", "hot_saw", FALSE),
     EventRow("Single Buck", "pro", "saw_hand", FALSE)}

GenRegistered(ev, n, k, with_results, pair) ==
    [heats |-> EmptyTable, heat_assignments |-> EmptyTable,
     results |-> IF with_results THEN [i \in 1 .. k |-> NewResult(1, i)]
                 ELSE EmptyTable,
     college |-> EmptyTable,
     pro |-> [c \in 1 .. n |->
                [ProRow(c) EXCEPT
                   !.events_entered = IF c <= k THEN {1} ELSE {},
                   !.gear_sharing =
                      IF pair # << >> /\ c = pair[1]
                      THEN GearKey("category", 0, "crosscut") :>
                              GearKey("name", pair[2], "")
                      ELSE EmptyTable]],
     teams |-> EmptyTable,
     events |-> <<ev>>,
     audit |-> << >>]

GenPairs(k) == {<< >>} \cup {p \in (1 .. k) \X (1 .. k) : p[1] # p[2]}

InitGen ==
    /\ \E ev \in GenEventRows : \E n \in 1 .. MaxEntrants : \E k \in {n - 1, n} \ {0} :
          \E with_results \in BOOLEAN : \E pair \in GenPairs(k) :
             Loaded(GenRegistered(ev, n, k, with_results, pair))
    /\ sess = [w \in Workers |-> Idle]
    /\ race = NoRace
    /\ CacheStart
    /\ RelayStart
    /\ ExtStart

NextGen == \E e \in DOMAIN events : GenerateHeats(e)

SpecGen == InitGen /\ [][NextGen]_vars

\* ------------------------------------------------------------ flight builder
MIN_HEAT_SPACING == 4

TARGET_HEAT_SPACING == 5

\* A score is the fraction num / den; the code's floats are compared as
\* fractions (den is a number of competitors, so it is positive).
Score(num, den) == [num |-> num, den |-> den]

ScoreGreater(a, b) == a.num * b.den > b.num * a.den

\* A score that does not look at the spacing.
flat_heat_score(competitors, competitor_last_heat, current_position) == Score(100, 1)

\* _calculate_heat_score; competitor_last_heat maps the competitors already
\* scheduled to the 0-based position of their last heat.
calculate_heat_score(competitors, competitor_last_heat, current_position) ==
    LET seen == competitors \cap DOMAIN competitor_last_heat
        spacing == [c \in seen |-> current_position - competitor_last_heat[c]]
        min_spacing == CHOOSE m \in Range(spacing) : \A x \in Range(spacing) : m <= x
        total_spacing == SumOver(seen, spacing)
        competitor_count == Cardinality(seen)
        penalty == (MIN_HEAT_SPACING - min_spacing) * 100
        bonus == IF min_spacing >= TARGET_HEAT_SPACING THEN 50 ELSE 0
    IN  IF competitors = {} THEN Score(100, 1)
        ELSE IF competitor_count = 0 THEN Score(1000, 1)
        ELSE IF min_spacing < MIN_HEAT_SPACING
             THEN Score(IF 50 - penalty > 0 THEN 50 - penalty ELSE 0, 1)
        ELSE Score((min_spacing * 10 + bonus) * competitor_count + total_spacing,
                   competitor_count)

\* The scan of the remaining heats: the first heat whose score is greater
\* than every score before it and not less than any after it.
best_index(remaining, competitor_last_heat, current_position) ==
    LET score(i) == calculate_heat_score(remaining[i].competitors,
                                         competitor_last_heat, current_position)
    IN  CHOOSE i \in DOMAIN remaining :
           /\ \A j \in 1 .. i - 1 : ScoreGreater(score(i), score(j))
           /\ \A j \in i + 1 .. Len(remaining) : ~ScoreGreater(score(j), score(i))

RemoveAt(s, i) == SubSeq(s, 1, i - 1) \o SubSeq(s, i + 1, Len(s))

\* The while loop of _optimize_heat_order.
RECURSIVE OrderHeats(_, _, _)
OrderHeats(ordered, remaining, competitor_last_heat) ==
    IF remaining = << >> THEN ordered
    ELSE LET i == best_index(remaining, competitor_last_heat, Len(ordered))
             best_heat == remaining[i]
             current_position == Len(ordered)
         IN  OrderHeats(Append(ordered, best_heat), RemoveAt(remaining, i),
                        [c \in DOMAIN competitor_last_heat \cup best_heat.competitors |->
                           IF c \in best_heat.competitors THEN current_position
                           ELSE competitor_last_heat[c]])

optimize_heat_order(all_heats) == OrderHeats(<< >>, all_heats, EmptyTable)

\* The heats build_pro_flights collects: the run 1 heats of the pro events,
\* event by event, by heat number within an event.
RECURSIVE HeatsByNumber(_, _)
HeatsByNumber(d, S) ==
    IF S = {} THEN << >>
    ELSE LET h == CHOOSE x \in S : \A y \in S :
                     \/ d.heats[x].heat_number < d.heats[y].heat_number
                     \/ d.heats[x].heat_number = d.heats[y].heat_number /\ x <= y
         IN  <<[heat |-> h, competitors |-> Range(d.heats[h].competitors)]>>
                \o HeatsByNumber(d, S \ {h})

RECURSIVE CollectHeats(_, _)
CollectHeats(d, e) ==
    IF e > Len(d.events) THEN << >>
    ELSE (IF d.events[e].event_type = "pro"
          THEN HeatsByNumber(d, {h \in EventHeatIds(d, e) : d.heats[h].run_number = 1})
          ELSE << >>) \o CollectHeats(d, e + 1)

HeatsPerFlight == {2, 8}

\* build_pro_flights: the optimized order is cut into flights of
\* heats_per_flight heats; a heat outside the order keeps its flight_id.
BuildProFlights(heats_per_flight) ==
    \E ordered \in {optimize_heat_order(CollectHeats(DB, 1))} :
       /\ ordered_heats' = ordered
       /\ flight_id' =
             [h \in DOMAIN flight_id \cup {ordered[k].heat : k \in DOMAIN ordered} |->
                IF \E k \in DOMAIN ordered : ordered[k].heat = h
                THEN LET k == CHOOSE x \in DOMAIN ordered : ordered[x].heat = h
                     IN  (k - 1) \div heats_per_flight + 1
                ELSE flight_id[h]]
       /\ UNCHANGED <<dbvars, reqvars, cachevars, relayvars, axevars, birlingvars, procvars>>

\* Pro events of one heat each (the first event may be a college event); a
\* competitor may have entered any of them.
FlightHeatSets == {S \in SUBSET (1 .. FlightComps) : Cardinality(S) <= 2}

FlightRegistered(first_type, heat_sets) ==
    [heats |-> [h \in DOMAIN heat_sets |->
                  NewHeat(h, 1, 1, SortedSeq(heat_sets[h]), EmptyTable)],
     heat_assignments |-> EmptyTable,
     results |-> EmptyTable,
     college |-> EmptyTable,
     pro |-> [c \in 1 .. FlightComps |-> ProRow(c)],
     teams |-> EmptyTable,
     events |-> [e \in DOMAIN heat_sets |->
                   EventRow("Hot Saw", IF e = 1 THEN first_type ELSE "pro",
                            "hot_saw", FALSE)],
     audit |-> << >>]

InitFlights ==
    /\ \E n \in 1 .. MaxFlightHeats : \E heat_sets \in [1 .. n -> FlightHeatSets] :
          \E first_type \in {"pro", "college"} :
             Loaded(FlightRegistered(first_type, heat_sets))
    /\ sess = [w \in Workers |-> Idle]
    /\ race = NoRace
    /\ CacheStart
    /\ RelayStart
    /\ ExtStart

NextFlights == \E heats_per_flight \in HeatsPerFlight : BuildProFlights(heats_per_flight)

SpecFlights == InitFlights /\ [][NextFlights]_vars


\* ------------------------------------------------------ partnered axe throw
\* The pair register_pair appends; a score or position not yet set is None.
NewPair(pair_id, competitor1_id, competitor2_id) ==
    [pair_id |-> pair_id, competitor1 |-> competitor1_id,
     competitor2 |-> competitor2_id, prelim_score |-> None,
     final_score |-> None, final_position |-> None]

register_pair(state, competitor1_id, competitor2_id) ==
    [state EXCEPT !.pairs =
        Append(@, NewPair(Len(state.pairs) + 1, competitor1_id, competitor2_id))]

\* The list left unsorted.
unsorted(s, key) == s

\* sorted(s, key=lambda x: x[key], reverse=True): greatest key first, equal keys in the
\* order they have in s.
RECURSIVE SortDescending(_, _)
SortDescending(s, key) ==
    IF s = << >> THEN << >>
    ELSE LET i == CHOOSE x \in DOMAIN s :
                     /\ \A y \in DOMAIN s : s[y][key] <= s[x][key]
                     /\ \A y \in 1 .. x - 1 : s[y][key] < s[x][key]
         IN  <<s[i]>> \o SortDescending(SubSeq(s, 1, i - 1) \o SubSeq(s, i + 1, Len(s)), key)

sorted_reverse(s, key) == SortDescending(s, key)

get_prelim_standings(state) ==
    sorted_reverse(SelectSeq(state.pairs, LAMBDA p : p.prelim_score # None), "prelim_score")

\* The first pair of the list with this pair_id gets the field set.
SetFirst(pairs, pair_id, field, value) ==
    LET hit == {i \in DOMAIN pairs : pairs[i].pair_id = pair_id}
    IN  IF hit = {} THEN pairs
        ELSE LET i == CHOOSE x \in hit : \A y \in hit : x <= y
             IN  [pairs EXCEPT ![i][field] = value]

record_prelim_result(state, pair_id, hits) ==
    LET scored == [state EXCEPT !.pairs =
                      SetFirst(@, pair_id, "prelim_score", hits)]
    IN  [scored EXCEPT !.prelim_results = get_prelim_standings(scored)]

can_advance_to_finals(state) ==
    LET scored == SelectSeq(state.pairs, LAMBDA p : p.prelim_score # None)
    IN  Len(scored) >= 4 /\ Len(scored) = Len(state.pairs)

FirstFour(s) == SubSeq(s, 1, Min(4, Len(s)))

advance_to_finals(state) ==
    [state EXCEPT !.finalists = FirstFour(get_prelim_standings(state)),
                  !.stage = "finals"]

\* The event the manager works on: the first one named 'Partnered Axe Throw'.
AxeEvents(d) == {e \in DOMAIN d.events : d.events[e].name = "Partnered Axe Throw"}

axe_event(d) == CHOOSE e \in AxeEvents(d) : \A x \in AxeEvents(d) : e <= x

\* The rows _save_event_results adds, in the order it adds them.
RECURSIVE AxeResultRows(_, _)
AxeResultRows(e, finalists) ==
    IF finalists = << >> THEN << >>
    ELSE LET pair == Head(finalists)
             row(c) == [NewResult(e, c) EXCEPT !.result_value = pair.final_score,
                                               !.final_position = pair.final_position]
         IN  <<row(pair.competitor1), row(pair.competitor2)>>
                \o AxeResultRows(e, Tail(finalists))

\* uq_event_result_competitor: no two rows of one event and competitor.
UniqueResults(table) ==
    \A r1, r2 \in DOMAIN table :
       (/\ table[r1].event_id = table[r2].event_id
        /\ table[r1].competitor_id = table[r2].competitor_id) => r1 = r2

\* record_final_result up to its last line; the positions are numbered down
\* the sorted finalists and copied to the pairs of the same pair_id.
RECURSIVE WithPositions(_, _)
WithPositions(sorted_finals, first) ==
    IF sorted_finals = << >> THEN << >>
    ELSE <<[Head(sorted_finals) EXCEPT !.final_position = first]>>
            \o WithPositions(Tail(sorted_finals), first + 1)

CopyToPairs(pairs, sorted_finals) ==
    [i \in DOMAIN pairs |->
       LET same == {k \in DOMAIN sorted_finals :
                       sorted_finals[k].pair_id = pairs[i].pair_id}
       IN  IF same = {} THEN pairs[i]
           ELSE LET k == Max(same)
                IN  [pairs[i] EXCEPT !.final_position = sorted_finals[k].final_position,
                                     !.final_score = sorted_finals[k].final_score]]

record_final_result(state, pair_id, hits) ==
    LET scored == [state EXCEPT !.finalists =
                      SetFirst(@, pair_id, "final_score", hits)]
        all_scored == \A i \in DOMAIN scored.finalists :
                         scored.finalists[i].final_score # None
        sorted_finals == WithPositions(sorted_reverse(scored.finalists, "final_score"), 1)
    IN  IF all_scored
        THEN [scored EXCEPT !.pairs = CopyToPairs(@, sorted_finals),
                            !.finalists = sorted_finals,
                            !.final_results = sorted_finals,
                            !.stage = "completed"]
        ELSE scored

get_full_standings(state) ==
    LET finalists_ids == {state.finalists[i].pair_id : i \in DOMAIN state.finalists}
        others == SelectSeq(get_prelim_standings(state),
                            LAMBDA p : p.pair_id \notin finalists_ids)
    IN  state.final_results
           \o [k \in DOMAIN others |-> [others[k] EXCEPT !.final_position = 4 + k]]

\* POST prelims/record.
RecordPrelimResult(pair_id, hits) ==
    /\ AxeEvents(DB) # {}
    /\ axe' = record_prelim_result(axe, pair_id, hits)
    /\ UNCHANGED <<dbvars, reqvars, cachevars, relayvars, flightvars, birlingvars, procvars>>

\* POST advance-to-finals; the ValueError is caught and nothing is saved.
AdvanceToFinals ==
    /\ AxeEvents(DB) # {}
    /\ axe' = IF can_advance_to_finals(axe) THEN advance_to_finals(axe) ELSE axe
    /\ UNCHANGED <<dbvars, reqvars, cachevars, relayvars, flightvars, birlingvars, procvars>>

\* POST finals/record.  When the last score completes the finals the rows are
\* added and committed before the state is saved; a row that breaks the
\* unique constraint fails that commit, the request ends in the
\* IntegrityError and neither rows nor state are stored.
RecordFinalResult(pair_id, hits) ==
    /\ AxeEvents(DB) # {}
    /\ LET state == record_final_result(axe, pair_id, hits)
           added == InsertAll(results, AxeResultRows(axe_event(DB), state.finalists))
       IN  IF state.stage # "completed"
           THEN axe' = state /\ results' = results
           ELSE IF UniqueResults(added)
                THEN axe' = state /\ results' = added
                ELSE axe' = axe /\ results' = results
    /\ UNCHANGED <<heats, heat_assignments, college, pro, teams, events, audit>>
    /\ UNCHANGED <<reqvars, cachevars, relayvars, flightvars, birlingvars, procvars>>

\* The event with n pairs registered, pair i made of competitors 2i - 1 and
\* 2i; with imported, every competitor has the pending EventResult row the
\* pro entry import adds for an entered event.
RECURSIVE RegisteredPairs(_)
RegisteredPairs(n) ==
    IF n = 0 THEN AxeNotStarted
    ELSE register_pair(RegisteredPairs(n - 1), 2 * n - 1, 2 * n)

AxeRegistered(n, imported) ==
    [heats |-> EmptyTable, heat_assignments |-> EmptyTable,
     results |-> IF imported THEN [c \in 1 .. 2 * n |-> NewResult(1, c)]
                 ELSE EmptyTable,
     college |-> EmptyTable,
     pro |-> [c \in 1 .. 2 * n |-> ProRow(c)],
     teams |-> EmptyTable,
     events |-> <<[EventRow("Partnered Axe Throw", "pro", "axe_throw", FALSE)
                     EXCEPT !.is_partnered = TRUE]>>,
     audit |-> << >>]

AxeHits == 1 .. MaxHits

InitAxe ==
    /\ \E n \in 4 .. MaxPairs : \E imported \in BOOLEAN :
          /\ Loaded(AxeRegistered(n, imported))
          /\ axe = RegisteredPairs(n)
    /\ sess = [w \in Workers |-> Idle]
    /\ race = NoRace
    /\ CacheStart
    /\ RelayStart
    /\ FlightStart
    /\ bracket_data = NoBracket
    /\ ProcStart

\* The scorer enters prelim scores while the event is in its prelims; the
\* other requests come at any time.
NextAxe ==
    \/ /\ axe.stage = "prelims"
       /\ \E p \in 1 .. MaxPairs : \E hits \in AxeHits : RecordPrelimResult(p, hits)
    \/ AdvanceToFinals
    \/ \E p \in 1 .. MaxPairs : \E hits \in AxeHits : RecordFinalResult(p, hits)

SpecAxe == InitAxe /\ [][NextAxe]_vars


\* The six-pair finals: six pairs whose prelim scores are 30, 28, 28, 27, 25
\* and 20 in registration order or in a rotation of it, each entered once; the finals scores
\* entered are 18, 19, 20 and 22.
SixPrelims == <<30, 28, 28, 27, 25, 20>>

SixFinals == <<20, 22, 18, 19>>

Rotations(s) == {SubSeq(s, k, Len(s)) \o SubSeq(s, 1, k - 1) : k \in DOMAIN s}

RECURSIVE PrelimsRecorded(_, _)
PrelimsRecorded(scores, n) ==
    IF n = 0 THEN RegisteredPairs(Len(scores))
    ELSE record_prelim_result(PrelimsRecorded(scores, n - 1), n, scores[n])

InitAxeSix ==
    /\ Loaded(AxeRegistered(Len(SixPrelims), FALSE))
    /\ \E scores \in Rotations(SixPrelims) : axe = PrelimsRecorded(scores, Len(scores))
    /\ sess = [w \in Workers |-> Idle]
    /\ race = NoRace
    /\ CacheStart
    /\ RelayStart
    /\ FlightStart
    /\ bracket_data = NoBracket
    /\ ProcStart

NextAxeSix ==
    \/ AdvanceToFinals
    \/ \E p \in DOMAIN SixPrelims : \E hits \in Range(SixFinals) : RecordFinalResult(p, hits)

SpecAxeSix == InitAxeSix /\ [][NextAxeSix]_vars


\* ----------------------------------------------------------- birling bracket
\* A match id 'W2_1' is <<"W", 2, 1>>; 'F1' and 'F2' are <<"F", 1, 1>> and
\* <<"F", 2, 1>>.  An empty slot, winner or loser is None.
NewMatch(kind, round, index, competitor1, competitor2, winner) ==
    [match_id |-> <<kind, round, index>>, competitor1 |-> competitor1,
     competitor2 |-> competitor2, winner |-> winner, loser |-> None,
     is_bye |-> kind = "W" /\ round = 1 /\ (competitor1 = None \/ competitor2 = None),
     needed |-> FALSE]

\* 2 ** ceil(log2(n))
RECURSIVE BracketSize(_)
BracketSize(n) == IF n <= 1 THEN 1 ELSE 2 * BracketSize((n + 1) \div 2)

RECURSIVE Pow2(_)
Pow2(k) == IF k = 0 THEN 1 ELSE 2 * Pow2(k - 1)

\* The first round: seed i against seed bracket_size + 1 - i, a missing seed
\* is a bye and the other competitor is the winner at once.
FirstRound(seeded, bracket_size) ==
    [i \in 1 .. bracket_size \div 2 |->
       LET comp1 == IF i <= Len(seeded) THEN seeded[i] ELSE None
           comp2 == IF bracket_size + 1 - i <= Len(seeded)
                    THEN seeded[bracket_size + 1 - i] ELSE None
       IN  NewMatch("W", 1, i, comp1, comp2,
                    IF comp1 = None /\ comp2 # None THEN comp2
                    ELSE IF comp2 = None /\ comp1 # None THEN comp1
                    ELSE None)]

EmptyRound(kind, round, num_matches) ==
    [i \in 1 .. num_matches |-> NewMatch(kind, round, i, None, None, None)]

RECURSIVE LaterWinnersRounds(_, _)
LaterWinnersRounds(matches_in_round, round_num) ==
    IF matches_in_round < 1 THEN << >>
    ELSE <<EmptyRound("W", round_num, matches_in_round)>>
            \o LaterWinnersRounds(matches_in_round \div 2, round_num + 1)

RECURSIVE LosersRounds(_, _, _, _)
LosersRounds(bracket_size, winners_rounds, w_round, losers_rounds) ==
    IF w_round >= winners_rounds THEN losers_rounds
    ELSE LET num_matches == IF w_round = 0 THEN bracket_size \div 4
                            ELSE LET q == bracket_size \div Pow2(w_round + 2)
                                 IN  IF q > 1 THEN q ELSE 1
         IN  LosersRounds(bracket_size, winners_rounds, w_round + 1,
                          IF num_matches = 0 THEN losers_rounds
                          ELSE Append(losers_rounds,
                                      EmptyRound("L", Len(losers_rounds) + 1, num_matches)))

generate_bracket(competitors) ==
    LET bracket_size == BracketSize(Len(competitors))
        pairings == FirstRound(competitors, bracket_size)
        winners == <<pairings>> \o LaterWinnersRounds(Len(pairings) \div 2, 2)
    IN  [bracket |-> [winners |-> winners,
                      losers |-> LosersRounds(bracket_size, Len(winners), 0, << >>),
                      finals |-> NewMatch("F", 1, 1, None, None, None),
                      true_finals |-> NewMatch("F", 2, 1, None, None, None)],
         competitors |-> competitors, seeding |-> competitors,
         placements |-> EmptyTable]

AllMatches(data) ==
    UNION {Range(data.bracket.winners[r]) : r \in DOMAIN data.bracket.winners}
       \cup UNION {Range(data.bracket.losers[r]) : r \in DOMAIN data.bracket.losers}
       \cup {data.bracket.finals, data.bracket.true_finals}

MatchIds(data) == {m.match_id : m \in AllMatches(data)}

find_match(data, match_id) == CHOOSE m \in AllMatches(data) : m.match_id = match_id

\* The match stored back in its place.
PutMatch(data, match) ==
    LET id == match.match_id
    IN  IF id[1] = "W" THEN [data EXCEPT !.bracket.winners[id[2]][id[3]] = match]
        ELSE IF id[1] = "L" THEN [data EXCEPT !.bracket.losers[id[2]][id[3]] = match]
        ELSE IF id[2] = 1 THEN [data EXCEPT !.bracket.finals = match]
        ELSE [data EXCEPT !.bracket.true_finals = match]

\* _advance_winner, _drop_to_losers and _advance_loser_winner: each is a
\* single pass statement.
advance_winner(data, match) == data

drop_to_losers(data, match) == data

advance_loser_winner(data, match) == data

SetPlacement(data, competitor_id, position) ==
    [data EXCEPT !.placements =
        [c \in DOMAIN @ \cup {competitor_id} |->
           IF c = competitor_id THEN position ELSE @[c]]]

record_elimination(data, competitor_id) ==
    SetPlacement(data, competitor_id,
                 Len(data.competitors) - Cardinality(DOMAIN data.placements))

\* record_match_result; the result is the bracket to save, or the bracket as
\* it was when the call ends in a ValueError.
record_match_result(data, match_id, winner_id) ==
    IF match_id \notin MatchIds(data) THEN data
    ELSE LET match == find_match(data, match_id)
         IN  IF winner_id \notin {match.competitor1, match.competitor2} THEN data
             ELSE LET loser_id == IF match.competitor1 = winner_id
                                  THEN match.competitor2 ELSE match.competitor1
                      played == [match EXCEPT !.winner = winner_id, !.loser = loser_id]
                      recorded == PutMatch(data, played)
                  IN  IF match_id[1] = "W"
                      THEN drop_to_losers(advance_winner(recorded, played), played)
                      ELSE IF match_id[1] = "L"
                      THEN record_elimination(advance_loser_winner(recorded, played),
                                              loser_id)
                      ELSE IF match_id[2] = 1
                      THEN IF winner_id = played.competitor2
                           THEN [recorded EXCEPT
                                   !.bracket.true_finals.needed = TRUE,
                                   !.bracket.true_finals.competitor1 = played.competitor1,
                                   !.bracket.true_finals.competitor2 = played.competitor2]
                           ELSE SetPlacement(SetPlacement(recorded, winner_id, 1),
                                             loser_id, 2)
                      ELSE SetPlacement(SetPlacement(recorded, winner_id, 1), loser_id, 2)

get_current_matches(data) ==
    {m \in AllMatches(data) :
        /\ m.competitor1 # None
        /\ m.competitor2 # None
        /\ m.winner = None
        /\ ~m.is_bye
        /\ (m.match_id = <<"F", 2, 1>> => m.needed)}

\* finalize_to_event_results: the row of each placed competitor is found or
\* added and gets its position; the event is completed.
RECURSIVE PlaceAll(_, _, _, _)
PlaceAll(d, e, placements, todo) ==
    IF todo = {} THEN d
    ELSE LET c == CHOOSE x \in todo : \A y \in todo : x <= y
             found == {r \in EventResultIds(d, e) : d.results[r].competitor_id = c}
             r == IF found = {} THEN NextId(d.results)
                  ELSE CHOOSE x \in found : \A y \in found : x <= y
             row == IF found = {} THEN NewResult(e, c) ELSE d.results[r]
             placed == [row EXCEPT !.final_position = placements[c],
                                   !.status = "completed"]
         IN  PlaceAll([d EXCEPT !.results =
                          [x \in DOMAIN d.results \cup {r} |->
                             IF x = r THEN placed ELSE d.results[x]]],
                      e, placements, todo \ {c})

finalize_to_event_results(d, e, data) ==
    [PlaceAll(d, e, data.placements, DOMAIN data.placements)
        EXCEPT !.events[e].status = "completed"]

BirlingEvent == 1

RecordMatchResult(match_id, winner_id) ==
    /\ bracket_data' = record_match_result(bracket_data, match_id, winner_id)
    /\ UNCHANGED <<dbvars, reqvars, cachevars, relayvars, flightvars, axevars, procvars>>

FinalizeToEventResults ==
    /\ Store(finalize_to_event_results(DB, BirlingEvent, bracket_data))
    /\ UNCHANGED <<reqvars, cachevars, relayvars, flightvars, axevars, birlingvars, procvars>>

\* A college Birling event and the bracket create_birling_bracket generates
\* for its first n competitors, in id order.
BirlingRegistered(n) ==
    [heats |-> EmptyTable, heat_assignments |-> EmptyTable, results |-> EmptyTable,
     college |-> [c \in 1 .. n |-> CollegeRow(c)],
     pro |-> EmptyTable,
     teams |-> [t \in {TeamOf(c) : c \in 1 .. n} |-> [total_points |-> 0]],
     events |-> <<EventRow("Birling", "college", "birling", FALSE)>>,
     audit |-> << >>]

BirlingMatchIds ==
    {<<kind, round, index>> : kind \in {"W", "L"}, round \in 1 .. 3,
                              index \in 1 .. MaxBirling \div 2}
       \cup {<<"F", 1, 1>>, <<"F", 2, 1>>}

InitBirling ==
    /\ \E n \in 2 .. MaxBirling :
          /\ Loaded(BirlingRegistered(n))
          /\ bracket_data = generate_bracket([c \in 1 .. n |-> c])
    /\ sess = [w \in Workers |-> Idle]
    /\ race = NoRace
    /\ CacheStart
    /\ RelayStart
    /\ FlightStart
    /\ axe = AxeNotStarted
    /\ ProcStart

NextBirling ==
    \/ \E match_id \in BirlingMatchIds : \E winner_id \in 1 .. MaxBirling :
          RecordMatchResult(match_id, winner_id)
    \/ FinalizeToEventResults

SpecBirling == InitBirling /\ [][NextBirling]_vars


\* ------------------------------------------------------ relay results
\* record_event_result: the result is stored on the team of that number when
\* the event is one of its events; the relay is completed when no event of
\* any team is left pending.
record_event_result(data, team_number, event_name, time_seconds) ==
    LET recorded ==
           [i \in DOMAIN data.teams |->
              LET team == data.teams[i]
              IN  IF team.team_number = team_number /\ event_name \in DOMAIN team.events
                  THEN LET evts == [team.events EXCEPT ![event_name] =
                                       [result |-> time_seconds, status |-> "completed"]]
                           all_complete == \A n \in DOMAIN evts : evts[n].result # None
                       IN  [team EXCEPT !.events = evts,
                                        !.total_time =
                                           IF all_complete
                                           THEN SumOver(DOMAIN evts,
                                                        [n \in DOMAIN evts |-> evts[n].result])
                                           ELSE None]
                  ELSE team]
        touched == \E i \in DOMAIN data.teams :
                      /\ data.teams[i].team_number = team_number
                      /\ event_name \in DOMAIN data.teams[i].events
        all_teams_complete ==
           \A i \in DOMAIN recorded : \A n \in DOMAIN recorded[i].events :
              recorded[i].events[n].status = "completed"
    IN  [data EXCEPT !.teams = recorded,
                     !.status = IF all_teams_complete THEN "completed"
                                ELSE IF touched THEN "in_progress" ELSE @]

\* replace_competitor: [raised, relay]; a ValueError leaves the stored relay
\* as it was.
replace_competitor(d, data, team_number, old_competitor_id, new_competitor_id,
                   competitor_type) ==
    LET table == IF competitor_type = "pro" THEN d.pro ELSE d.college
        member_key == IF competitor_type = "pro" THEN "pro_members" ELSE "college_members"
        found == {i \in DOMAIN data.teams :
                     /\ data.teams[i].team_number = team_number
                     /\ old_competitor_id \in data.teams[i][member_key]}
    IN  IF new_competitor_id \notin DOMAIN table
        THEN [raised |-> TRUE, relay |-> data]
        ELSE IF \E i \in found :
                   \/ table[old_competitor_id].gender # table[new_competitor_id].gender
                   \/ ~table[new_competitor_id].pro_am_lottery_opt_in
        THEN [raised |-> TRUE, relay |-> data]
        ELSE [raised |-> FALSE,
              relay |-> [data EXCEPT !.teams =
                           [i \in DOMAIN data.teams |->
                              IF i \in found
                              THEN [data.teams[i] EXCEPT ![member_key] =
                                      (@ \ {old_competitor_id}) \cup {new_competitor_id}]
                              ELSE data.teams[i]]]]

RelayEventNames == RELAY_EVENTS \cup {"other"}

\* POST .../results
RecordEventResult(team_number, event_name, time_seconds) ==
    /\ relay' = record_event_result(relay, team_number, event_name, time_seconds)
    /\ relay_outcome' = "ok"
    /\ UNCHANGED <<dbvars, reqvars, cachevars, extvars>>

\* POST .../replace-competitor
ReplaceCompetitor(team_number, old_competitor_id, new_competitor_id, competitor_type) ==
    /\ LET out == replace_competitor(DB, relay, team_number, old_competitor_id,
                                     new_competitor_id, competitor_type)
       IN  /\ relay' = out.relay
           /\ relay_outcome' = IF out.raised THEN "error" ELSE "ok"
    /\ UNCHANGED <<dbvars, reqvars, cachevars, extvars>>

\* Entrants for one team, two per bucket, and one more pro man to replace
\* with.
RelayRunCollege == 1 .. 4

RelayRunPro == 1 .. 5

RelayRunRegistered ==
    [RelayRegistered EXCEPT !.college = Restrict(@, RelayRunCollege),
                            !.pro = Restrict(@, RelayRunPro),
                            !.teams = Restrict(@, {TeamOf(c) : c \in RelayRunCollege})]

InitRelayRun ==
    /\ Loaded(RelayRunRegistered)
    /\ sess = [w \in Workers |-> Idle]
    /\ race = NoRace
    /\ CacheStart
    /\ RelayStart
    /\ ExtStart

NextRelayRun ==
    \/ \E num_teams \in 1 .. MaxTeams : DrawLottery(num_teams)
    \/ RedrawLottery
    \/ \E team_number \in 1 .. MaxTeams : \E event_name \in RelayEventNames :
          \E time_seconds \in 1 .. MaxRelayTime :
             RecordEventResult(team_number, event_name, time_seconds)
    \/ \E team_number \in 1 .. MaxTeams : \E old_id \in RelayRunPro :
          \E new_id \in RelayComps : \E competitor_type \in {"pro", "college"} :
             ReplaceCompetitor(team_number, old_id, new_id, competitor_type)

SpecRelayRun == InitRelayRun /\ [][NextRelayRun]_vars


\* ------------------------------------------------------------------- claims
Sum(table, field) == SumOver(DOMAIN table, [k \in DOMAIN table |-> table[k][field]])

\* C1: two overlapping submissions for one heat that both read version v end
\* with exactly one committed and one rejected with a conflict, and the heat
\* at version v + 1, whatever the heat's status was.
C1_OneCommitOneConflict ==
    (race.active /\ \A w \in Workers : race.codes[w] # 0) =>
        /\ {race.codes[w] : w \in Workers} = {200, 409}
        /\ heats[race.heat].version_id = race.version + 1

\* C2: running the finalization of an event on a database that it has just
\* produced changes no position, award or competitor total.
C2_FinalizeIdempotent ==
    \A e \in DOMAIN events :
        LET once == calculate_positions(DB, e)
            twice == calculate_positions(once, e)
        IN  /\ twice.results = once.results
            /\ twice.college = once.college
            /\ twice.pro = once.pro

C2_Witness ==
    \E e \in DOMAIN events :
        /\ Cardinality({i \in DOMAIN audit :
              audit[i].action = "event_finalized" /\ audit[i].entity_id = e}) >= 2
        /\ \E r \in EventResultIds(DB, e) :
              /\ results[r].final_position = 1
              /\ results[r].points_awarded + results[r].payout_amount > 0

\* C3: in every committed state the team totals add up to the individual
\* points of the active college competitors.
C3_TeamTotals ==
    Sum(teams, "total_points") =
        Sum(Restrict(college, {c \in DOMAIN college : college[c].status = "active"}),
            "individual_points")

\* C9: in every committed state a college competitor's individual_points is the
\* sum of points_awarded over its results, and a pro competitor's
\* total_earnings the sum of payout_amount over its results.
C9_TotalsMatchResults ==
    /\ \A c \in DOMAIN college :
          college[c].individual_points =
              Sum(Restrict(results, {r \in DOMAIN results :
                      /\ results[r].competitor_id = c
                      /\ events[results[r].event_id].event_type = "college"}),
                  "points_awarded")
    /\ \A c \in DOMAIN pro :
          pro[c].total_earnings =
              Sum(Restrict(results, {r \in DOMAIN results :
                      /\ results[r].competitor_id = c
                      /\ events[results[r].event_id].event_type = "pro"}),
                  "payout_amount")

\* C10: when every heat of a single-run event is completed (and some result is
\* completed), the event has been finalized: it is completed and every
\* completed result has a position.
C10_AllHeatsDoneFinalized ==
    \A e \in DOMAIN events :
        LET done == {r \in EventResultIds(DB, e) : results[r].status = "completed"}
        IN  (/\ ~ events[e].requires_dual_runs
             /\ EventHeatIds(DB, e) # {}
             /\ \A h \in EventHeatIds(DB, e) : heats[h].status = "completed"
             /\ done # {})
            => /\ events[e].status = "completed"
               /\ \A r \in done : results[r].final_position # 0


\* C5: every heat's competitor list and the HeatAssignment rows of the heat
\* name the same competitors.
C5_AssignmentsMirrorHeats ==
    \A h \in DOMAIN heats :
        Range(heats[h].competitors) =
            {heat_assignments[a].competitor_id :
                a \in {x \in DOMAIN heat_assignments : heat_assignments[x].heat_id = h}}

AllowedStands(ev) ==
    IF ev.event_type = "college" /\ ev.name = "Stock Saw" THEN {7, 8}
    ELSE IF SpecificStands(ev.stand_type) # << >> THEN Range(SpecificStands(ev.stand_type))
    ELSE 1 .. StandTotal(ev.stand_type)

\* C6: in every heat the assigned stands are pairwise distinct and belong to
\* the event's allowed stand set.
C6_StandsDistinctAndAllowed ==
    \A h \in DOMAIN heats :
        LET stands == heats[h].stand_assignments
        IN  /\ \A c1, c2 \in DOMAIN stands : c1 # c2 => stands[c1] # stands[c2]
            /\ \A c \in DOMAIN stands : stands[c] \in AllowedStands(events[heats[h].event_id])

\* C7: every step that changes committed tournament data appends an AuditLog
\* row in the same commit.
C7_EveryChangeAudited ==
    [][<<heats, heat_assignments, results, college, pro, teams, events>>'
         # <<heats, heat_assignments, results, college, pro, teams, events>>
       => Len(audit') > Len(audit)]_vars

\* C4: a read served from the cache (a hit) never returns a payload built from
\* data older than the tournament's last committed write.
C4_NoStaleCacheHit == served.hit => served.payload = served.latest

\* C8: a relay request that ends in an error leaves every committed row and the
\* saved relay data as they were before the request.
C8_FailedActionWritesNothing ==
    [][relay_outcome' = "error" => (relay' = relay /\ dbvars' = dbvars)]_vars

\* The entrants of event e that share gear for it, by the declarations in the
\* competitor rows.
SharesGear(e, a, b) ==
    LET table == CompTable(DB, events[e].event_type)
    IN  competitors_share_gear_for_event(
            Entrant(table, a, TRUE, events[e].event_type),
            Entrant(table, b, TRUE, events[e].event_type), events[e], e)

SharedHeats(e) ==
    {h \in EventHeatIds(DB, e) :
        \E i, j \in DOMAIN heats[h].competitors :
            /\ i # j
            /\ SharesGear(e, heats[h].competitors[i], heats[h].competitors[j])}

SnakeHeatOf(i, H) ==
    LET r == (i - 1) \div H
        p == (i - 1) % H
    IN  IF r % 2 = 0 THEN p + 1 ELSE H - p

SnakeHeat(n, H, heat_number) ==
    SelectSeq([i \in 1 .. n |-> i], LAMBDA i : SnakeHeatOf(i, H) = heat_number)

NoGearDeclared == \A c \in DOMAIN pro : pro[c].gear_sharing = EmptyTable

HeatSizes(e) ==
    [n \in 1 .. Cardinality(EventHeatIds(DB, e)) |->
        Len(heats[CHOOSE h \in EventHeatIds(DB, e) :
                     heats[h].heat_number = n].competitors)]

C13_OnlyEntrantsPlaced ==
    \A e \in DOMAIN events :
        LET table == CompTable(DB, events[e].event_type)
            entered == {c \in DOMAIN table : e \in table[c].events_entered}
        IN  /\ \A r \in EventResultIds(DB, e) : results[r].competitor_id \in entered
            /\ \A h \in EventHeatIds(DB, e) : Range(heats[h].competitors) \subseteq entered

\* C14: in a finalized event, completed results with equal sort metric have the
\* same final_position, and a result's position is one more than the number of
\* completed results that sort strictly before it.
C14_TiesSharePosition ==
    \A e \in DOMAIN events :
        events[e].status = "completed" =>
            LET completed == {r \in EventResultIds(DB, e) :
                                 results[r].status = "completed"}
            IN  \A r \in completed :
                   results[r].final_position =
                      1 + Cardinality({q \in completed :
                             SortsBefore(events[e], results[q], results[r])})

\* C15: in the heat order the flight builder outputs, a heat that has a
\* competitor in common with one of the three heats before it was chosen at a
\* step where every heat still to be placed had a competitor in common with
\* one of those three heats.
TooClose(ordered, heat, position) ==
    \E i \in 1 .. position - 1 :
       /\ position - i < MIN_HEAT_SPACING
       /\ ordered[i].competitors \cap heat.competitors # {}

C15_SpacingUnlessForced ==
    \A j \in DOMAIN ordered_heats :
       TooClose(ordered_heats, ordered_heats[j], j) =>
          \A k \in j .. Len(ordered_heats) : TooClose(ordered_heats, ordered_heats[k], j)

C15_Witness ==
    /\ Len(ordered_heats) = MaxFlightHeats
    /\ \E j \in DOMAIN ordered_heats : TooClose(ordered_heats, ordered_heats[j], j)
    /\ \E j \in DOMAIN ordered_heats : \E i \in 1 .. j - 1 :
          /\ ordered_heats[i].competitors \cap ordered_heats[j].competitors # {}
          /\ ~TooClose(ordered_heats, ordered_heats[j], j)

\* C16: six pairs with prelim scores 30, 28, 28, 27, 25, 20 in registration
\* order: advancing to finals selects pairs 1 to 4 in that order (the two
\* pairs on 28 in registration order); once the finals scores 20, 22, 18, 19
\* are recorded for them their positions are 2, 1, 4, 3 and the full
\* standings end with pair 5 in position 5 and pair 6 in position 6.
PairIds(s) == [i \in DOMAIN s |-> s[i].pair_id]

SixPrelimsEntered ==
    /\ Len(axe.pairs) = Len(SixPrelims)
    /\ \A i \in DOMAIN axe.pairs : axe.pairs[i].prelim_score = SixPrelims[i]

SixFinalsEntered ==
    /\ axe.stage = "completed"
    /\ Len(axe.finalists) = Len(SixFinals)
    /\ \A i \in DOMAIN SixFinals : axe.pairs[i].final_score = SixFinals[i]

C16_SixPairsScenario ==
    SixPrelimsEntered =>
       /\ axe.stage = "finals" => PairIds(axe.finalists) = <<1, 2, 3, 4>>
       /\ SixFinalsEntered =>
             /\ [i \in 1 .. 4 |-> axe.pairs[i].final_position] = <<2, 1, 4, 3>>
             /\ PairIds(get_full_standings(axe)) = <<2, 1, 4, 3, 5, 6>>
             /\ [i \in 1 .. 6 |-> get_full_standings(axe)[i].final_position]
                   = <<1, 2, 3, 4, 5, 6>>

C16_Witness ==
    /\ SixPrelimsEntered
    /\ SixFinalsEntered
    /\ [i \in 1 .. 4 |-> axe.pairs[i].final_position] = <<2, 1, 4, 3>>

\* C17: a request that records the last missing finals score of a Partnered
\* Axe Throw event in its finals leaves the event completed and, for each
\* individual of each pair, exactly one EventResult row of the event, which
\* carries the pair's final_position and the pair's final_score as its
\* result_value; so also when the individuals had pending rows before.
RowsOf(e, c) ==
    {r \in DOMAIN results : results[r].event_id = e /\ results[r].competitor_id = c}

OneRowPerIndividual ==
    \A i \in DOMAIN axe.pairs : \A c \in {axe.pairs[i].competitor1, axe.pairs[i].competitor2} :
       /\ Cardinality(RowsOf(axe_event(DB), c)) = 1
       /\ \A r \in RowsOf(axe_event(DB), c) :
             /\ results[r].final_position = axe.pairs[i].final_position
             /\ results[r].result_value = axe.pairs[i].final_score

LastFinalMissing(pair_id) ==
    /\ axe.stage = "finals"
    /\ \E i \in DOMAIN axe.finalists : axe.finalists[i].pair_id = pair_id
    /\ \A i \in DOMAIN axe.finalists :
          axe.finalists[i].pair_id # pair_id => axe.finalists[i].final_score # None

C17_CompletionWritesRows ==
    [][\A pair_id \in 1 .. MaxPairs : \A hits \in AxeHits :
          (LastFinalMissing(pair_id) /\ RecordFinalResult(pair_id, hits)) =>
             (axe'.stage = "completed" /\ OneRowPerIndividual')]_vars

\* C18: recording the winner of a winners-bracket match that has both its
\* competitors leaves the winner in a slot of a later winners-bracket match or
\* of the grand final and the loser in a slot of a losers-bracket match;
\* recording the winner of a losers-bracket match leaves the winner in a slot
\* of a later losers-bracket match or of the grand final and the loser with a
\* recorded final placement.
InSlot(m, c) == c \in {m.competitor1, m.competitor2}

Playable(match_id, winner_id) ==
    /\ match_id \in MatchIds(bracket_data)
    /\ match_id[1] \in {"W", "L"}
    /\ find_match(bracket_data, match_id).competitor1 # None
    /\ find_match(bracket_data, match_id).competitor2 # None
    /\ InSlot(find_match(bracket_data, match_id), winner_id)

LoserOf(match_id, winner_id) ==
    LET m == find_match(bracket_data, match_id)
    IN  IF m.competitor1 = winner_id THEN m.competitor2 ELSE m.competitor1

WinnerAdvanced(data, match_id, winner_id) ==
    \E m \in AllMatches(data) :
       /\ InSlot(m, winner_id)
       /\ \/ m.match_id = <<"F", 1, 1>>
          \/ m.match_id[1] = match_id[1] /\ m.match_id[2] > match_id[2]

LoserDropped(data, match_id, loser_id) ==
    IF match_id[1] = "W"
    THEN \E m \in AllMatches(data) : m.match_id[1] = "L" /\ InSlot(m, loser_id)
    ELSE loser_id \in DOMAIN data.placements

C18_WinnerAdvancesLoserDrops ==
    [][\A match_id \in BirlingMatchIds : \A winner_id \in 1 .. MaxBirling :
          (Playable(match_id, winner_id) /\ RecordMatchResult(match_id, winner_id)) =>
             /\ WinnerAdvanced(bracket_data', match_id, winner_id)
             /\ LoserDropped(bracket_data', match_id, LoserOf(match_id, winner_id))]_vars

\* C19: when no match of the bracket is ready to play, finalizing writes one
\* EventResult row per competitor of the bracket, N rows in all, each with
\* that competitor's final position.
BirlingRows(c) ==
    {r \in DOMAIN results :
        results[r].event_id = BirlingEvent /\ results[r].competitor_id = c}

OneRowPerCompetitor ==
    /\ Cardinality({r \in DOMAIN results : results[r].event_id = BirlingEvent})
          = Len(bracket_data.competitors)
    /\ \A c \in Range(bracket_data.competitors) :
          /\ Cardinality(BirlingRows(c)) = 1
          /\ c \in DOMAIN bracket_data.placements
          /\ \A r \in BirlingRows(c) :
                results[r].final_position = bracket_data.placements[c]

C19_FinalizeWritesAllRows ==
    [][(get_current_matches(bracket_data) = {} /\ FinalizeToEventResults) =>
          OneRowPerCompetitor']_vars

\* C20: under draw, record result and replace competitor the relay status
\* stays or moves along not_drawn -> drawn -> in_progress -> completed; any
\* other change of status is a redraw; and the status becomes completed only
\* when every team has all four sub-events recorded.
StatusEdges ==
    {<<"not_drawn", "drawn">>, <<"drawn", "in_progress">>, <<"in_progress", "completed">>}

AllSubEventsRecorded(data) ==
    \A i \in DOMAIN data.teams :
       /\ DOMAIN data.teams[i].events = RELAY_EVENTS
       /\ \A n \in RELAY_EVENTS : data.teams[i].events[n].result # None

C20_StatusTransitions ==
    [][/\ \/ relay'.status = relay.status
          \/ <<relay.status, relay'.status>> \in StatusEdges
          \/ RedrawLottery
       /\ (relay'.status = "completed" /\ relay.status # "completed") =>
             AllSubEventsRecorded(relay')]_vars

\* get_lottery_capacity()['max_teams']: the number of valid 8-person teams the
\* opted-in pools allow.
get_lottery_capacity(d) ==
    LET pools == LotteryPools(d)
    IN  Min(Min(Cardinality(pools.pro_male) \div 2,
                Cardinality(pools.pro_female) \div 2),
            Min(Cardinality(pools.college_male) \div 2,
                Cardinality(pools.college_female) \div 2))

\* The number of teams POST .../redraw asks for.
RedrawRequest == IF Len(relay.teams) = 0 THEN 2 ELSE Len(relay.teams)

RelayKept == relay'.status = relay.status /\ relay'.teams = relay.teams

\* C21: a draw or a redraw that asks for more teams than the lottery capacity
\* (the least of the four opted-in pools, halved) is refused with an error and
\* leaves the stored relay status and teams as they were before the request.
C21_OverCapacityRefused ==
    [][/\ \A num_teams \in 1 .. MaxTeams :
             (DrawLottery(num_teams) /\ num_teams > get_lottery_capacity(DB)) =>
                (relay_outcome' = "error" /\ RelayKept)
       /\ (RedrawLottery /\ RedrawRequest > get_lottery_capacity(DB)) =>
             (relay_outcome' = "error" /\ RelayKept)]_vars

\* C29: invalidate_tournament_caches(t) removes cache entries of tournament t
\* only: every entry cached under a key of another tournament is still in the
\* cache, with the same value, after the call.
C29_InvalidateKeepsOtherTournaments ==
    [][InvalidateCaches =>
          \A tid \in Tournaments \ {writer.tid} :
             \A key \in KeysOf(tid) \cap DOMAIN cache :
                key \in DOMAIN cache' /\ cache'[key] = cache[key]]_vars

\* validate_competitor_spacing, the heats it walks: the flights by
\* flight_number, the heats of each flight by Heat.id.
RECURSIVE HeatsByFlightAndId(_, _)
HeatsByFlightAndId(fid, S) ==
    IF S = {} THEN << >>
    ELSE LET h == CHOOSE x \in S : \A y \in S :
                     \/ fid[x] < fid[y]
                     \/ fid[x] = fid[y] /\ x <= y
         IN  <<h>> \o HeatsByFlightAndId(fid, S \ {h})

\* validate_competitor_spacing: a violation for every competitor whose heat
\* comes fewer than MIN_HEAT_SPACING positions after that competitor's last one.
validate_competitor_spacing(d, fid) ==
    LET all_heats == HeatsByFlightAndId(fid, DOMAIN fid)
        competitors(i) == Range(d.heats[all_heats[i]].competitors)
        violations ==
           {v \in (DOMAIN d.pro) \X (DOMAIN all_heats) \X (DOMAIN all_heats) :
               /\ v[2] < v[3]
               /\ v[1] \in competitors(v[2]) \cap competitors(v[3])
               /\ \A k \in v[2] + 1 .. v[3] - 1 : v[1] \notin competitors(k)
               /\ v[3] - v[2] < MIN_HEAT_SPACING}
    IN  [valid |-> violations = {},
         total_heats |-> Len(all_heats),
         violations |-> violations,
         all_heats |-> all_heats]

BuiltHeats == [k \in DOMAIN ordered_heats |-> ordered_heats[k].heat]

BuiltTooClose ==
    \E j \in DOMAIN ordered_heats : TooClose(ordered_heats, ordered_heats[j], j)

\* C30: after a flight build the heats the spacing validator walks are, in
\* order, the heats the builder ordered and cut into flights, and the validator
\* reports a violation exactly when the built order has a competitor in two
\* heats fewer than 4 positions apart.
C30_ValidatorWalksBuiltOrder ==
    ordered_heats # << >> =>
       LET report == validate_competitor_spacing(DB, flight_id)
       IN  /\ report.all_heats = BuiltHeats
           /\ ~report.valid <=> BuiltTooClose

AxeStageEdges ==
    {<<"prelims", "finals">>, <<"finals", "completed">>}

FourFinalistsScored(state) ==
    /\ Len(state.finalists) = 4
    /\ \A i \in DOMAIN state.finalists : state.finalists[i].final_score # None

\* C26: the Partnered Axe stage only moves prelims -> finals -> completed; it
\* becomes completed only from finals and only when there are four finalists,
\* each with a finals score; and neither recording a finals score nor advancing
\* to the finals changes the stage when called in a stage other than its own.
C26_AxeStageOrder ==
    [][/\ axe'.stage # axe.stage => <<axe.stage, axe'.stage>> \in AxeStageEdges
       /\ (axe'.stage = "completed" /\ axe.stage # "completed") =>
             FourFinalistsScored(axe')
       /\ \A p \in 1 .. MaxPairs : \A hits \in AxeHits :
             (RecordFinalResult(p, hits) /\ axe.stage # "finals") =>
                axe'.stage = axe.stage
       /\ (AdvanceToFinals /\ axe.stage # "prelims") =>
             axe'.stage = axe.stage]_vars

MembersOf(table, members, gender) == {c \in members : table[c].gender = gender}

TeamWellFormed(team) ==
    /\ Cardinality(MembersOf(pro, team.pro_members, "M")) = 2
    /\ Cardinality(MembersOf(pro, team.pro_members, "F")) = 2
    /\ Cardinality(MembersOf(college, team.college_members, "M")) = 2
    /\ Cardinality(MembersOf(college, team.college_members, "F")) = 2
    /\ \A c \in team.pro_members : pro[c].pro_am_lottery_opt_in
    /\ \A c \in team.college_members : college[c].pro_am_lottery_opt_in

\* C27: after any sequence of successful draws and replacements every relay
\* team holds exactly 2 pro men, 2 pro women, 2 college men and 2 college
\* women, all opted into the lottery, and no competitor holds more than one
\* slot, on one team or across teams.
C27_TeamsKeepComposition ==
    /\ \A i \in DOMAIN relay.teams : TeamWellFormed(relay.teams[i])
    /\ \A i, j \in DOMAIN relay.teams :
          i # j =>
             /\ relay.teams[i].pro_members \cap relay.teams[j].pro_members = {}
             /\ relay.teams[i].college_members \cap relay.teams[j].college_members = {}

\* ---------------------------------------------------------------------------
\* _generate_springboard_heats, step by step.

MaxLeft == 4
MaxRight == 8

\* config.STAND_CONFIGS['springboard']['total']
SpringboardStands == 4

\* "for i, comp in enumerate(left_handed): heats[i % num_heats].append(comp)"
distribute_left_handed(left_handed, num_heats) ==
    [h \in 1 .. num_heats |->
        SelectSeq(left_handed, LAMBDA c : (c - 1) % num_heats = h - 1)]

\* The call: left_handed and right_handed split off, the left-handed cutters
\* dealt one per heat in turn, heat_idx = 0, direction = 1.
SbCall(n_left, n_right, max_per_heat) ==
    LET num_heats == CeilDiv(n_left + n_right, max_per_heat)
    IN  [pc |-> "search",
         heats |-> distribute_left_handed([i \in 1 .. n_left |-> i], num_heats),
         right_handed |-> [i \in 1 .. n_right |-> n_left + i],
         num_heats |-> num_heats, max_per_heat |-> max_per_heat,
         heat_idx |-> 0, direction |-> 1]

\* "while heats[heat_idx] and len(heats[heat_idx]) >= max_per_heat"
SbHeatFull(st) ==
    /\ st.heats[st.heat_idx + 1] # << >>
    /\ Len(st.heats[st.heat_idx + 1]) >= st.max_per_heat

\* One turn of the while loop: heat_idx += direction, then
\* _advance_snake_index.
SbSearchNextHeat ==
    /\ sb.pc = "search"
    /\ sb.right_handed # << >>
    /\ SbHeatFull(sb)
    /\ LET n == advance_snake_index(sb.heat_idx + sb.direction, sb.direction,
                                    sb.num_heats)
       IN  sb' = [sb EXCEPT !.heat_idx = n.heat_idx, !.direction = n.direction]
    /\ UNCHANGED <<dbvars, reqvars, cachevars, relayvars, flightvars, axevars,
                   birlingvars, jobs, http, import_outcome>>

\* The loop is left: heats[heat_idx].append(comp), then the move to the next
\* heat.
SbPlaceRightHanded ==
    /\ sb.pc = "search"
    /\ sb.right_handed # << >>
    /\ ~SbHeatFull(sb)
    /\ LET n == advance_snake_index(sb.heat_idx, sb.direction, sb.num_heats)
       IN  sb' = [sb EXCEPT !.heats[sb.heat_idx + 1] = Append(@, Head(sb.right_handed)),
                            !.right_handed = Tail(@),
                            !.heat_idx = n.heat_idx, !.direction = n.direction]
    /\ UNCHANGED <<dbvars, reqvars, cachevars, relayvars, flightvars, axevars,
                   birlingvars, jobs, http, import_outcome>>

\* "return heats"
SbReturn ==
    /\ sb.pc = "search"
    /\ sb.right_handed = << >>
    /\ sb' = [sb EXCEPT !.pc = "done"]
    /\ UNCHANGED <<dbvars, reqvars, cachevars, relayvars, flightvars, axevars,
                   birlingvars, jobs, http, import_outcome>>

InitSpringboard ==
    /\ Loaded(Registered("pro", << >>, << >>))
    /\ sess = [w \in Workers |-> Idle]
    /\ race = NoRace
    /\ CacheStart
    /\ RelayStart
    /\ FlightStart
    /\ axe = AxeNotStarted
    /\ bracket_data = NoBracket
    /\ \E n_left \in 1 .. MaxLeft : \E n_right \in 0 .. MaxRight :
          sb = SbCall(n_left, n_right, SpringboardStands)
    /\ jobs = NoJobs
    /\ http = HttpIdle
    /\ import_outcome = "none"

NextSpringboard ==
    \/ SbSearchNextHeat
    \/ SbPlaceRightHanded
    \/ SbReturn

\* The generator is one thread of straight-line code: whenever it has a next
\* step it takes it.
SpecSpringboard ==
    InitSpringboard /\ [][NextSpringboard]_vars /\ WF_vars(NextSpringboard)

\* C24: springboard heat generation terminates for every non-empty entrant
\* list, whatever the numbers of left-handed and right-handed cutters: the
\* search for the next heat with space reaches a heat with space when there is
\* one.
C24_SpringboardTerminates == <>(sb.pc = "done")

\* The number of places competitor c holds in the run-1 heats of event e.
RunOnePlaces(e, c) ==
    SumOver({h \in EventHeatIds(DB, e) : heats[h].run_number = 1},
            [h \in DOMAIN heats |->
                Cardinality({i \in DOMAIN heats[h].competitors :
                                heats[h].competitors[i] = c})])

\* C25: after heat generation for an event that uses heats, every entrant of
\* the event is in exactly one of its run-1 heats: nobody is left out and
\* nobody is placed twice.
C25_EveryEntrantInOneHeat ==
    \A e \in DOMAIN events :
        EventHeatIds(DB, e) # {} =>
            \A r \in EventResultIds(DB, e) :
                RunOnePlaces(e, results[r].competitor_id) = 1

\* ---------------------------------------------------------------------------
\* background_jobs: submit, the executor's workers, the done callback.

MaxJobs == 3

\* _executor = ThreadPoolExecutor(max_workers=2)
max_workers == 2

JobIds == 1 .. MaxJobs

\* submit, "with _lock: _jobs[job_id] = {... 'status': 'queued' ...}".
SubmitCreate(j) ==
    /\ j \notin DOMAIN jobs
    /\ jobs' = [k \in DOMAIN jobs \cup {j} |->
                  IF k = j
                  THEN [status |-> "queued", pc |-> "created", future |-> "none",
                        order |-> 0, callback |-> FALSE]
                  ELSE jobs[k]]
    /\ UNCHANGED <<dbvars, reqvars, cachevars, relayvars, flightvars, axevars,
                   birlingvars, sb, http, import_outcome>>

\* submit, "future = _executor.submit(fn, *args, **kwargs)": the work item
\* joins the executor's FIFO queue.
ExecutorSubmit(j) ==
    /\ j \in DOMAIN jobs
    /\ jobs[j].pc = "created"
    /\ jobs' = [jobs EXCEPT ![j].pc = "submitted", ![j].future = "pending",
                            ![j].order = Cardinality({k \in DOMAIN jobs :
                                                         jobs[k].future # "none"}) + 1]
    /\ UNCHANGED <<dbvars, reqvars, cachevars, relayvars, flightvars, axevars,
                   birlingvars, sb, http, import_outcome>>

\* submit, "with _lock: _jobs[job_id]['status'] = 'running'".
MarkRunning(j) ==
    /\ j \in DOMAIN jobs
    /\ jobs[j].pc = "submitted"
    /\ jobs' = [jobs EXCEPT ![j].pc = "marked", ![j].status = "running"]
    /\ UNCHANGED <<dbvars, reqvars, cachevars, relayvars, flightvars, axevars,
                   birlingvars, sb, http, import_outcome>>

\* _done_callback: the status follows the future's outcome.
done_callback(job) ==
    [job EXCEPT !.status = IF job.future = "ok" THEN "completed" ELSE "failed"]

\* submit, "future.add_done_callback(_done_callback)": a future that is done
\* already calls the callback at once; then submit returns.
AddDoneCallback(j) ==
    /\ j \in DOMAIN jobs
    /\ jobs[j].pc = "marked"
    /\ LET attached == [jobs[j] EXCEPT !.pc = "returned", !.callback = TRUE]
       IN  jobs' = [jobs EXCEPT ![j] =
                      IF jobs[j].future \in {"ok", "error"}
                      THEN done_callback(attached) ELSE attached]
    /\ UNCHANGED <<dbvars, reqvars, cachevars, relayvars, flightvars, axevars,
                   birlingvars, sb, http, import_outcome>>

Executing == {k \in DOMAIN jobs : jobs[k].future = "executing"}

\* A free worker thread of the pool takes the oldest work item of the queue.
WorkerStart(j) ==
    /\ j \in DOMAIN jobs
    /\ jobs[j].future = "pending"
    /\ \A k \in DOMAIN jobs : jobs[k].future = "pending" => jobs[j].order <= jobs[k].order
    /\ Cardinality(Executing) < max_workers
    /\ jobs' = [jobs EXCEPT ![j].future = "executing"]
    /\ UNCHANGED <<dbvars, reqvars, cachevars, relayvars, flightvars, axevars,
                   birlingvars, sb, http, import_outcome>>

\* fn returns or raises: the future is done and calls the callbacks it has.
WorkerFinish(j, raised) ==
    /\ j \in DOMAIN jobs
    /\ jobs[j].future = "executing"
    /\ LET finished == [jobs[j] EXCEPT !.future = IF raised THEN "error" ELSE "ok"]
       IN  jobs' = [jobs EXCEPT ![j] =
                      IF jobs[j].callback THEN done_callback(finished) ELSE finished]
    /\ UNCHANGED <<dbvars, reqvars, cachevars, relayvars, flightvars, axevars,
                   birlingvars, sb, http, import_outcome>>

InitJobs ==
    /\ Loaded(Registered("pro", << >>, << >>))
    /\ sess = [w \in Workers |-> Idle]
    /\ race = NoRace
    /\ CacheStart
    /\ RelayStart
    /\ ExtStart

NextJobs ==
    \/ \E j \in JobIds : SubmitCreate(j)
    \/ \E j \in JobIds : ExecutorSubmit(j)
    \/ \E j \in JobIds : MarkRunning(j)
    \/ \E j \in JobIds : AddDoneCallback(j)
    \/ \E j \in JobIds : WorkerStart(j)
    \/ \E j \in JobIds : \E raised \in BOOLEAN : WorkerFinish(j, raised)

SpecJobs == InitJobs /\ [][NextJobs]_vars

\* get(job_id)['status']
ReportedStatus(j) == jobs[j].status

JobStatusEdges ==
    {<<"queued", "running">>, <<"running", "completed">>, <<"running", "failed">>}

\* C28: the jobs that report 'running' are never more than the worker pool
\* holds; a job that was submitted and that no worker has started reports
\* 'queued'; and a job's status only moves queued -> running -> completed or
\* failed and does not change after that.
C28_JobStatusFollowsThePool ==
    /\ [](Cardinality({j \in DOMAIN jobs : ReportedStatus(j) = "running"})
             <= max_workers)
    /\ [](\A j \in DOMAIN jobs :
             (jobs[j].pc = "returned" /\ jobs[j].future = "pending") =>
                ReportedStatus(j) = "queued")
    /\ [][\A j \in DOMAIN jobs :
             jobs'[j].status # jobs[j].status =>
                <<jobs[j].status, jobs'[j].status>> \in JobStatusEdges]_vars

\* ---------------------------------------------------------------------------
\* Access control: the roles' capabilities and the before_request guard.

Roles ==
    {"admin", "judge", "scorer", "registrar", "competitor", "spectator", "viewer"}

\* current_user of a request without a login session.
Anonymous == "anonymous"

is_judge(role) == role \in {"admin", "judge"}

is_admin(role) == role = "admin"

can_manage_users(role) == is_admin(role)

can_register(role) == role \in {"admin", "judge", "registrar"}

can_schedule(role) == role \in {"admin", "judge", "scorer"}

can_score(role) == role \in {"admin", "judge", "scorer"}

can_report(role) ==
    role \in {"admin", "judge", "scorer", "registrar", "viewer", "spectator"}

\* getattr(current_user, permission_attr, False)
HasPermission(user, permission_attr) ==
    CASE permission_attr = "is_judge" -> is_judge(user)
      [] permission_attr = "can_manage_users" -> can_manage_users(user)
      [] permission_attr = "can_register" -> can_register(user)
      [] permission_attr = "can_schedule" -> can_schedule(user)
      [] permission_attr = "can_score" -> can_score(user)
      [] permission_attr = "can_report" -> can_report(user)
      [] OTHER -> FALSE

\* The management blueprints with the scoring routes left out.
WithoutScoring ==
    {"main", "registration", "scheduling", "reporting", "proam_relay",
     "partnered_axe", "validation", "import_pro"}

MANAGEMENT_BLUEPRINTS ==
    {"main", "registration", "scheduling", "scoring", "reporting", "proam_relay",
     "partnered_axe", "validation", "import_pro"}

BLUEPRINT_PERMISSIONS ==
    [blueprint_name \in
        {"main", "registration", "scheduling", "scoring", "reporting",
         "proam_relay", "partnered_axe", "validation", "import_pro", "auth"} |->
        CASE blueprint_name = "main" -> "is_judge"
          [] blueprint_name \in {"registration", "import_pro"} -> "can_register"
          [] blueprint_name = "scheduling" -> "can_schedule"
          [] blueprint_name \in {"scoring", "proam_relay", "partnered_axe"} -> "can_score"
          [] blueprint_name \in {"reporting", "validation"} -> "can_report"
          [] OTHER -> "can_manage_users"]

PUBLIC_MAIN_ENDPOINTS == {<<"main", "index">>, <<"main", "set_language">>}

\* One POST route per blueprint that changes tournament data, the account
\* administration, and the routes open to everybody.
WriteEndpoints ==
    {<<b, "write">> : b \in DOMAIN BLUEPRINT_PERMISSIONS \ {"auth"}}
       \cup {<<"auth", "manage_users">>}

Endpoints ==
    WriteEndpoints \cup PUBLIC_MAIN_ENDPOINTS
       \cup {<<"auth", "login">>, <<"portal", "spectator">>,
             <<"api", "public_standings">>, <<"static", "file">>}

\* A request arrives: Flask has matched the endpoint, no handler ran yet.
Request(user, endpoint) ==
    /\ http.pc = "idle"
    /\ http' = [pc |-> "before_request", user |-> user, endpoint |-> endpoint,
                touched |-> FALSE, response |-> "none"]
    /\ UNCHANGED <<dbvars, reqvars, cachevars, relayvars, flightvars, axevars,
                   birlingvars, sb, jobs, import_outcome>>

\* require_judge_for_management_routes (HAS_FLASK_LOGIN is true): it returns
\* None, the login redirect of login_manager.unauthorized(), or aborts with 403.
require_judge_for_management_routes(user, endpoint) ==
    LET blueprint_name == endpoint[1]
    IN  IF blueprint_name = "static" THEN "none"
        ELSE IF endpoint \in PUBLIC_MAIN_ENDPOINTS THEN "none"
        ELSE IF blueprint_name \in {"auth", "portal"} THEN "none"
        ELSE IF blueprint_name = "api" /\ endpoint[2] = "public_standings" THEN "none"
        ELSE IF blueprint_name \notin MANAGEMENT_BLUEPRINTS THEN "none"
        ELSE IF user = Anonymous THEN "login"
        ELSE IF ~HasPermission(user,
                    IF blueprint_name \in DOMAIN BLUEPRINT_PERMISSIONS
                    THEN BLUEPRINT_PERMISSIONS[blueprint_name] ELSE "is_judge")
        THEN "403"
        ELSE "none"

BeforeRequest ==
    /\ http.pc = "before_request"
    /\ LET response == require_judge_for_management_routes(http.user, http.endpoint)
       IN  http' = [http EXCEPT !.pc = IF response = "none" THEN "view" ELSE "done",
                                !.response = response]
    /\ UNCHANGED <<dbvars, reqvars, cachevars, relayvars, flightvars, axevars,
                   birlingvars, sb, jobs, import_outcome>>

\* routes/auth.py _require_admin, the first statement of the account
\* administration views.
require_admin(user) ==
    IF user = Anonymous THEN "login"
    ELSE IF ~can_manage_users(user) THEN "403"
    ELSE "none"

\* The view function: the account views call _require_admin first; the
\* tournament views load the tournament (Tournament.query.get_or_404) and go
\* on to their writes; set_language, login and static files touch no
\* tournament data.
View ==
    /\ http.pc = "view"
    /\ LET denied == IF http.endpoint = <<"auth", "manage_users">>
                     THEN require_admin(http.user) ELSE "none"
           reads == http.endpoint \notin
                       {<<"main", "set_language">>, <<"auth", "login">>,
                        <<"static", "file">>}
       IN  http' = [http EXCEPT !.pc = "done",
                                !.response = IF denied = "none" THEN "200" ELSE denied,
                                !.touched = denied = "none" /\ reads]
    /\ UNCHANGED <<dbvars, reqvars, cachevars, relayvars, flightvars, axevars,
                   birlingvars, sb, jobs, import_outcome>>

\* The response is sent.
Respond ==
    /\ http.pc = "done"
    /\ http' = HttpIdle
    /\ UNCHANGED <<dbvars, reqvars, cachevars, relayvars, flightvars, axevars,
                   birlingvars, sb, jobs, import_outcome>>

InitAccess ==
    /\ Loaded(Registered("pro", << >>, << >>))
    /\ sess = [w \in Workers |-> Idle]
    /\ race = NoRace
    /\ CacheStart
    /\ RelayStart
    /\ ExtStart

NextAccess ==
    \/ \E user \in Roles \cup {Anonymous} : \E endpoint \in Endpoints :
          Request(user, endpoint)
    \/ BeforeRequest
    \/ View
    \/ Respond

SpecAccess == InitAccess /\ [][NextAccess]_vars

\* The capability a write endpoint asks for.
RequiredPermission(endpoint) == BLUEPRINT_PERMISSIONS[endpoint[1]]

LacksPermission ==
    /\ http.pc # "idle"
    /\ http.endpoint \in WriteEndpoints
    /\ ~HasPermission(http.user, RequiredPermission(http.endpoint))

MaxMembers == 4

MAX_EVENTS_PER_COMPETITOR == 6
MAX_PER_EVENT_PER_GENDER_PER_TEAM == 3
MAX_PAIRS_PER_PARTNERED_EVENT == 3
MAX_CHOPPING_EVENTS_PER_COMPETITOR == 2

CHOPPING_EVENTS ==
    {"Underhand Hard Hit", "Underhand Speed", "Standing Block Hard Hit",
     "Standing Block Speed"}

\* config.COLLEGE_CLOSED_EVENTS, the names the sheets of the model use.
COLLEGE_CLOSED_EVENTS ==
    CHOPPING_EVENTS \cup
       {"Single Buck", "Double Buck", "Stock Saw", "Speed Climb", "Obstacle Pole",
        "Birling"}

\* _partnered_event_gender_requirements()
partnered_event_gender_requirements == [e \in {"Double Buck"} |-> "same"]

\* What a row of the sheet can enter: nothing, one event, three chopping
\* events, seven closed events, or Double Buck with the neighbouring row.
EntryProfiles == {"none", "single", "chop3", "seven", "pair"}

ProfileEvents(profile) ==
    CASE profile = "single" -> {"Single Buck"}
      [] profile = "chop3" ->
            {"Underhand Hard Hit", "Underhand Speed", "Standing Block Hard Hit"}
      [] profile = "seven" ->
            {"Underhand Hard Hit", "Underhand Speed", "Single Buck", "Stock Saw",
             "Speed Climb", "Obstacle Pole", "Birling"}
      [] profile = "pair" -> {"Double Buck"}
      [] OTHER -> {}

\* Rows 1 and 2, 3 and 4, ... name each other.
Neighbour(i) == IF i % 2 = 1 THEN i + 1 ELSE i - 1

\* The parsed sheet of one team: row i is the person named i, the first
\* n_male rows are men.
Sheet(n_male, profiles) ==
    [i \in DOMAIN profiles |->
        [name |-> i,
         gender |-> IF i <= n_male THEN "M" ELSE "F",
         events |-> ProfileEvents(profiles[i]),
         partners |-> IF profiles[i] = "pair"
                      THEN [e \in {"Double Buck"} |-> Neighbour(i)]
                      ELSE EmptyTable]]

Sheets ==
    UNION {{Sheet(n_male, profiles) :
               n_male \in 0 .. n, profiles \in [1 .. n -> EntryProfiles]} :
           n \in 1 .. MaxMembers}

\* _process_standard_entry_form up to its flush: the team row and one
\* CollegeCompetitor per named row that is not on the team yet.
process_standard_entry_form(d, sheet, team_id) ==
    LET existing(i) == \E c \in DOMAIN d.college :
                          d.college[c].team_id = team_id /\ d.college[c].name = sheet[i].name
        fresh == SelectSeq([i \in DOMAIN sheet |-> i], LAMBDA i : ~existing(i))
        rows == [k \in DOMAIN fresh |->
                   [name |-> sheet[fresh[k]].name, team_id |-> team_id,
                    gender |-> sheet[fresh[k]].gender, individual_points |-> 0,
                    status |-> "active", gear_sharing |-> EmptyTable,
                    events_entered |-> sheet[fresh[k]].events,
                    partners |-> sheet[fresh[k]].partners,
                    pro_am_lottery_opt_in |-> FALSE]]
    IN  [d EXCEPT !.teams = IF team_id \in DOMAIN d.teams THEN @
                            ELSE InsertAll(@, <<[total_points |-> 0]>>),
                  !.college = InsertAll(@, rows)]

\* _validate_college_entry_constraints: the kinds of error it collects for
\* the touched teams.
validate_college_entry_constraints(d, team_ids) ==
    UNION {
      LET active_members ==
             {c \in DOMAIN d.college :
                 d.college[c].team_id = team_id /\ d.college[c].status = "active"}
          entered(c) == d.college[c].events_entered
          by_name(name) == {c \in active_members : d.college[c].name = name}
          too_many_events ==
             \E c \in active_members :
                Cardinality(entered(c)) > MAX_EVENTS_PER_COMPETITOR
          too_many_chopping ==
             \E c \in active_members :
                Cardinality(entered(c) \cap CHOPPING_EVENTS)
                   > MAX_CHOPPING_EVENTS_PER_COMPETITOR
          too_many_entrants ==
             \E e \in UNION {entered(c) : c \in active_members} :
                /\ e \notin DOMAIN partnered_event_gender_requirements
                /\ \E gender \in {"M", "F"} :
                      Cardinality({c \in active_members :
                                      e \in entered(c) /\ d.college[c].gender = gender})
                         > MAX_PER_EVENT_PER_GENDER_PER_TEAM
          partnered(c) == entered(c) \cap DOMAIN partnered_event_gender_requirements
          partner_name(c, e) ==
             IF e \in DOMAIN d.college[c].partners THEN d.college[c].partners[e]
             ELSE None
          good_pair(c, e) ==
             /\ partner_name(c, e) # None
             /\ \E p \in by_name(partner_name(c, e)) :
                   /\ e \in entered(p)
                   /\ partner_name(p, e) = d.college[c].name
          bad_partner ==
             \E c \in active_members : \E e \in partnered(c) : ~good_pair(c, e)
          pairs(e, bucket) ==
             {{d.college[c].name, partner_name(c, e)} :
                 c \in {x \in active_members :
                           /\ e \in partnered(x)
                           /\ good_pair(x, e)
                           /\ (IF partnered_event_gender_requirements[e]
                                     \in {"mixed", "any"}
                               THEN "ALL" ELSE d.college[x].gender) = bucket}}
          too_many_pairs ==
             \E e \in DOMAIN partnered_event_gender_requirements :
                \E bucket \in {"ALL", "M", "F"} :
                   Cardinality(pairs(e, bucket)) > MAX_PAIRS_PER_PARTNERED_EVENT
      IN  (IF too_many_events THEN {"events"} ELSE {})
             \cup (IF too_many_chopping THEN {"chopping"} ELSE {})
             \cup (IF too_many_entrants THEN {"entrants"} ELSE {})
             \cup (IF bad_partner THEN {"partner"} ELSE {})
             \cup (IF too_many_pairs THEN {"pairs"} ELSE {}) :
      team_id \in team_ids \cap DOMAIN d.teams}

\* POST .../college/upload: process_college_entry_form commits when the
\* validation raised nothing and the route logs the import; on any exception
\* the route rolls the session back.
UploadCollegeEntry(sheet) ==
    /\ LET team_id == 1
           flushed == process_standard_entry_form(DB, sheet, team_id)
           errors == validate_college_entry_constraints(flushed, {team_id})
       IN  IF errors # {}
           THEN /\ import_outcome' = "error"
                /\ UNCHANGED dbvars
           ELSE /\ import_outcome' = "ok"
                /\ Store(log_action(flushed, "college_upload_imported",
                                    "tournament", 1))
    /\ UNCHANGED <<reqvars, cachevars, relayvars, flightvars, axevars, birlingvars,
                   sb, jobs, http>>

\* An empty tournament.
InitImport ==
    /\ Loaded([Registered("college", << >>, << >>) EXCEPT
                  !.college = EmptyTable, !.teams = EmptyTable])
    /\ sess = [w \in Workers |-> Idle]
    /\ race = NoRace
    /\ CacheStart
    /\ RelayStart
    /\ ExtStart

\* The entry form of a team is uploaded into the empty tournament.
NextImport ==
    /\ teams = EmptyTable
    /\ \E sheet \in Sheets : UploadCollegeEntry(sheet)

SpecImport == InitImport /\ [][NextImport]_vars

ActiveMembers(t) ==
    {c \in DOMAIN college : college[c].team_id = t /\ college[c].status = "active"}

\* "A Team is VALID iff it has 4-8 active members with >= 2 male and >= 2
\* female."
TeamValid(t) ==
    /\ Cardinality(ActiveMembers(t)) \in 4 .. 8
    /\ Cardinality({c \in ActiveMembers(t) : college[c].gender = "M"}) >= 2
    /\ Cardinality({c \in ActiveMembers(t) : college[c].gender = "F"}) >= 2

EventLimitsKept(t) ==
    \A c \in ActiveMembers(t) :
       /\ Cardinality(college[c].events_entered \cap COLLEGE_CLOSED_EVENTS) <= 6
       /\ Cardinality(college[c].events_entered \cap CHOPPING_EVENTS) <= 2

TeamEntryLimitsKept(t) ==
    /\ \A e \in COLLEGE_CLOSED_EVENTS \ {"Double Buck"} : \A gender \in {"M", "F"} :
          Cardinality({c \in ActiveMembers(t) :
                          e \in college[c].events_entered /\ college[c].gender = gender})
             <= 3
    /\ Cardinality({c \in ActiveMembers(t) :
                       "Double Buck" \in college[c].events_entered}) <= 6

PartnersReciprocal(t) ==
    \A c \in ActiveMembers(t) :
       "Double Buck" \in college[c].events_entered =>
          \E p \in ActiveMembers(t) :
             /\ "Double Buck" \in college[p].events_entered
             /\ college[c].partners["Double Buck"] = college[p].name
             /\ college[p].partners["Double Buck"] = college[c].name

\* C22: the college roster import raises a domain error and commits no team
\* and no competitor when a team it touched breaks a data-model invariant:
\* whatever it committed is a valid team (4 to 8 active members, at least 2
\* men and 2 women) within the per-competitor and per-team entry limits and
\* with reciprocal partner entries.
C22_ImportCommitsOnlyValidTeams ==
    /\ import_outcome = "error" => (teams = EmptyTable /\ college = EmptyTable)
    /\ import_outcome = "ok" =>
          \A t \in DOMAIN teams :
             /\ TeamValid(t)
             /\ EventLimitsKept(t)
             /\ TeamEntryLimitsKept(t)
             /\ PartnersReciprocal(t)

====
